---- MODULE Spec2Model ----
(***************************************************************************)
(* gophermart: the accrual reconciliation pipeline (internal/worker) and   *)
(* the transactional balance ledger (internal/storage/postgres).           *)
(*                                                                         *)
(* The database variables (orders, balances, withdrawals) hold the         *)
(* COMMITTED state.  A transaction keeps its writes in pend[p] and its row *)
(* locks in ordLock / balLock until WithinTransaction commits or rolls     *)
(* back.  Every SQL statement is one step.  Amounts (DOUBLE PRECISION in   *)
(* the schema) are modelled as exact integers.                             *)
(***************************************************************************)
EXTENDS Integers, Sequences, FiniteSets, TLC

\* ---------------------------------------------------------------- bounds
MaxTicks == 2          \* dispatcher ticks explored
MaxWithdrawals == 2    \* withdrawal rows explored (committed plus in flight)
MaxAccrual == 1        \* largest accrual the accrual service awards
MaxSum == 1            \* largest withdrawal sum requested
WorkerCount == 2       \* workers passed to NewOrderProcessor
MaxDigits == 2          \* longest string of the exhaustive ValidateOrderNumber check (SpecLuhn)
MaxRetryAfter == 2     \* largest Retry-After delay, in seconds, the service sends (SpecFetch)
MaxNow == 2            \* seconds the clock runs (SpecAuth)
MaxTTL == 1            \* largest token lifetime, in seconds (SpecAuth)
MaxTokenLen == 20      \* positions of a decoded token an attacker may alter (SpecAuth)
MaxClock == 6          \* seconds the clock runs (SpecSleep)
MaxSize == 2           \* largest size given to NewOrderProcessor (SpecQueue)
BatchSize == 1         \* batchSize passed to NewOrderProcessor
NumSelectors == 2      \* concurrent SelectBatchForProcessing callers (SpecSelect)
MaxStarts == 2         \* calls of OrderProcessor.Start explored (SpecLife)

\* ------------------------------------------------------------- constants
Nil == -1              \* a nil *float64 (accrual absent)

Users == {1, 2}
Clients == {<<"client", 1>>, <<"client", 2>>}
\* order numbers as digit strings; a character code above 9 is a non-digit
OrderNumbers == {<<1, 8>>, <<2, 6>>, <<1, 2>>}

\* NewOrderProcessor: non-positive sizes are replaced by 1; the channel has
\* capacity batchSize * workers
\* mutant: the sizes are taken as given
NewOrderProcessorAsGiven(size, count) ==
    [batchSize |-> size, workers |-> count, cap |-> size * count]

NewOrderProcessor(size, count) ==
    LET w == IF count <= 0 THEN 1 ELSE count
        b == IF size <= 0 THEN 1 ELSE size
    IN [batchSize |-> b, workers |-> w, cap |-> b * w]

batchSize == NewOrderProcessor(BatchSize, WorkerCount).batchSize
workers == NewOrderProcessor(BatchSize, WorkerCount).workers
JobsCap == NewOrderProcessor(BatchSize, WorkerCount).cap

\* every call of Start spawns a generation of goroutines on its own runCtx: one
\* dispatcher and p.workers workers
Gens == 1..MaxStarts
Dispatcher(g) == <<"dispatch", g>>
WorkersOf(g) == {<<"worker", (g - 1) * workers + i>> : i \in 1..workers}
GenOf(p) == IF p[1] = "dispatch" THEN p[2] ELSE ((p[2] - 1) \div workers) + 1
Dispatchers == {Dispatcher(g) : g \in Gens}
AllWorkers == UNION {WorkersOf(g) : g \in Gens}

\* the goroutines of the first Start
Disp == Dispatcher(1)
Workers == WorkersOf(1)
Selectors == {<<"selector", i>> : i \in 1..NumSelectors}
SelProcs == Dispatchers \cup Selectors
Procs == SelProcs \cup AllWorkers \cup Clients
NoProc == <<"none", 0>>

VARIABLES
    orders,       \* table orders: sequence of rows, id = index, in upload order
    balances,     \* table balances: user -> row (present, current, withdrawn)
    withdrawals,  \* table withdrawals: sequence of rows in insertion order
    ordLock,      \* row lock of each orders row: the transaction holding it
    balLock,      \* row (key) lock of each balances row
    pend,         \* uncommitted writes of each process's open transaction
    sb,           \* SelectBatchForProcessing call of the dispatcher / a selector
    jobs,         \* OrderProcessor.jobs: the hand-off channel
    wk,           \* each worker goroutine: position and locals of handleOrder
    cl,           \* each HTTP client: its request (Withdraw or Upload) in progress
    accrualSvc,   \* the external accrual service: order number -> verdict
    ticks,        \* ticker.C deliveries so far
    credits,      \* history: committed balance credits per order id
    conc,         \* history: the calls whose transaction overlapped a selector's call
    life          \* OrderProcessor: cancel, the run contexts, the state of the channel

vars == <<orders, balances, withdrawals, ordLock, balLock, pend, sb, jobs, wk, cl,
          accrualSvc, ticks, credits, conc, life>>

\* ------------------------------------------------------------ validation
RECURSIVE LuhnSumNoFold(_, _, _, _)
\* mutant: a doubled digit above 9 is not reduced by 9
LuhnSumNoFold(number, i, alt, sum) ==
    IF i = 0 THEN sum
    ELSE IF number[i] > 9 THEN -1
    ELSE LET digit == IF alt THEN 2 * number[i] ELSE number[i]
         IN LuhnSumNoFold(number, i - 1, ~alt, sum + digit)

RECURSIVE LuhnSum(_, _, _, _)
\* the loop of ValidateOrderNumber from index i down to 1; -1 on a non-digit
LuhnSum(number, i, alt, sum) ==
    IF i = 0 THEN sum
    ELSE IF number[i] > 9 THEN -1
    ELSE LET d2 == IF alt THEN 2 * number[i] ELSE number[i]
             digit == IF alt /\ d2 > 9 THEN d2 - 9 ELSE d2
         IN LuhnSum(number, i - 1, ~alt, sum + digit)

\* mutant: only the digits are checked, not the checksum
ValidateDigitsOnly(number) ==
    /\ number # <<>>
    /\ \A i \in DOMAIN number : number[i] <= 9

ValidateOrderNumber(number) ==
    /\ number # <<>>
    /\ LET s == LuhnSum(number, Len(number), FALSE, 0)
       IN s >= 0 /\ s % 10 = 0

ValidNumbers == {n \in OrderNumbers : ValidateOrderNumber(n)}
OrderIds == 1..Cardinality(ValidNumbers)

\* ------------------------------------------------------------------ Init
NoBalance == [present |-> FALSE, current |-> 0, withdrawn |-> 0]
NoPend == [orders |-> {}, balances |-> {}, withdrawals |-> <<>>, credit |-> 0]
IdleSb == [pc |-> "idle", orders |-> <<>>, err |-> FALSE]
IdleWk == [pc |-> "idle", order |-> 0, status |-> "", accrual |-> Nil, userID |-> 0]
\* the processor after NewOrderProcessor, and after the one Start of the
\* application's OnStart hook
NotStarted == [starts |-> 0, cancel |-> 0, done |-> {}, closed |-> FALSE,
               crashed |-> FALSE, ctl |-> "idle", returned |-> FALSE,
               app |-> "running", pool |-> "open"]
Started == [NotStarted EXCEPT !.starts = 1, !.cancel = 1]

IdleCl == [pc |-> "idle", userID |-> 0, order |-> <<>>, sum |-> 0, ret |-> "", res |-> 0,
           summary |-> <<>>]

Init ==
    /\ orders = <<>>
    /\ balances = [u \in Users |-> NoBalance]
    /\ withdrawals = <<>>
    /\ ordLock = [o \in OrderIds |-> NoProc]
    /\ balLock = [u \in Users |-> NoProc]
    /\ pend = [p \in Procs |-> NoPend]
    /\ sb = [p \in SelProcs |->
                IF p \in Dispatchers \ {Disp} THEN [IdleSb EXCEPT !.pc = "none"] ELSE IdleSb]
    /\ jobs = <<>>
    /\ wk = [w \in AllWorkers |->
                IF w \in Workers THEN IdleWk ELSE [IdleWk EXCEPT !.pc = "none"]]
    /\ life = Started
    /\ cl = [c \in Clients |-> IdleCl]
    /\ accrualSvc = [n \in OrderNumbers |-> [status |-> "PENDING", accrual |-> Nil]]
    /\ ticks = 0
    /\ credits = [o \in OrderIds |-> 0]
    /\ conc = [p \in Selectors |-> {}]

\* ---------------------------------------------------------- transactions
\* the row locks p holds are released when its transaction ends
Released(lock, p) == [k \in DOMAIN lock |-> IF lock[k] = p THEN NoProc ELSE lock[k]]

\* tx.Commit: the pending writes of p become the committed state
CommittedOrders(p) ==
    [i \in DOMAIN orders |->
        IF \E w \in pend[p].orders : w.id = i
        THEN LET w == CHOOSE w \in pend[p].orders : w.id = i
             IN [orders[i] EXCEPT !.status = w.status, !.accrual = w.accrual]
        ELSE orders[i]]

CommittedBalances(p) ==
    [u \in Users |->
        IF \E w \in pend[p].balances : w.userID = u
        THEN LET w == CHOOSE w \in pend[p].balances : w.userID = u
             IN [present |-> TRUE, current |-> w.current, withdrawn |-> w.withdrawn]
        ELSE balances[u]]

\* mutant: the INSERT INTO withdrawals is lost at commit
CommitDropsWithdrawals(p) ==
    /\ orders' = CommittedOrders(p)
    /\ balances' = CommittedBalances(p)
    /\ withdrawals' = withdrawals
    /\ credits' = IF pend[p].credit = 0 THEN credits
                  ELSE [credits EXCEPT ![pend[p].credit] = @ + 1]
    /\ ordLock' = Released(ordLock, p)
    /\ balLock' = Released(balLock, p)
    /\ pend' = [pend EXCEPT ![p] = NoPend]

Commit(p) ==
    /\ orders' = CommittedOrders(p)
    /\ balances' = CommittedBalances(p)
    /\ withdrawals' = withdrawals \o pend[p].withdrawals
    /\ credits' = IF pend[p].credit = 0 THEN credits
                  ELSE [credits EXCEPT ![pend[p].credit] = @ + 1]
    /\ ordLock' = Released(ordLock, p)
    /\ balLock' = Released(balLock, p)
    /\ pend' = [pend EXCEPT ![p] = NoPend]

\* mutant: the UPDATE of orders runs on the pool, outside the transaction, so a
\* rollback does not undo it
RollbackKeepsOrders(p) ==
    /\ orders' = CommittedOrders(p)
    /\ ordLock' = Released(ordLock, p)
    /\ balLock' = Released(balLock, p)
    /\ pend' = [pend EXCEPT ![p] = NoPend]
    /\ UNCHANGED <<balances, withdrawals, credits>>

\* tx.Rollback: the pending writes of p are discarded
Rollback(p) ==
    /\ ordLock' = Released(ordLock, p)
    /\ balLock' = Released(balLock, p)
    /\ pend' = [pend EXCEPT ![p] = NoPend]
    /\ UNCHANGED <<orders, balances, withdrawals, credits>>

\* ---------------------------------------------------------------- upload
\* mutant: the INSERT without ON CONFLICT (number) DO NOTHING and without the
\* UNIQUE constraint
CreateNoConflict(userID, number) ==
    orders' = Append(orders, [userID |-> userID, number |-> number,
                              status |-> "NEW", accrual |-> Nil])

\* orderRepository.Create: INSERT ... ON CONFLICT (number) DO NOTHING; on conflict
\* the existing row is returned and nothing is written
Create(userID, number) ==
    IF \E i \in DOMAIN orders : orders[i].number = number
    THEN UNCHANGED orders
    ELSE orders' = Append(orders, [userID |-> userID, number |-> number,
                                   status |-> "NEW", accrual |-> Nil])

\* OrderUseCase.Register: the Luhn check comes before any repository call
Register(userID, number) ==
    /\ IF ~ValidateOrderNumber(number)
       THEN UNCHANGED orders
       ELSE Create(userID, number)
    /\ UNCHANGED <<balances, withdrawals, ordLock, balLock, pend, sb, jobs, wk, cl,
                   accrualSvc, ticks, credits, conc, life>>

\* ------------------------------------------------- SelectBatchForProcessing
RECURSIVE SelectRowsNoSkip(_, _, _)
\* mutant: the query without FOR UPDATE SKIP LOCKED
SelectRowsNoSkip(i, limit, acc) ==
    IF i > Len(orders) \/ Len(acc) >= limit THEN acc
    ELSE IF orders[i].status \in {"NEW", "PROCESSING"}
         THEN SelectRowsNoSkip(i + 1, limit, Append(acc, i))
         ELSE SelectRowsNoSkip(i + 1, limit, acc)

RECURSIVE SelectRowsNewOnly(_, _, _)
\* mutant: the query selects NEW orders only
SelectRowsNewOnly(i, limit, acc) ==
    IF i > Len(orders) \/ Len(acc) >= limit THEN acc
    ELSE IF orders[i].status = "NEW" /\ ordLock[i] = NoProc
         THEN SelectRowsNewOnly(i + 1, limit, Append(acc, i))
         ELSE SelectRowsNewOnly(i + 1, limit, acc)

RECURSIVE SelectRowsAnyStatus(_, _, _)
\* mutant: the query has no WHERE status IN ('NEW','PROCESSING')
SelectRowsAnyStatus(i, limit, acc) ==
    IF i > Len(orders) \/ Len(acc) >= limit THEN acc
    ELSE IF ordLock[i] = NoProc
         THEN SelectRowsAnyStatus(i + 1, limit, Append(acc, i))
         ELSE SelectRowsAnyStatus(i + 1, limit, acc)

RECURSIVE SelectRows(_, _, _)
\* SELECT ... WHERE status IN ('NEW','PROCESSING') ORDER BY uploaded_at LIMIT $1
\* FOR UPDATE SKIP LOCKED: scan from row i, skipping rows another transaction locks
SelectRows(i, limit, acc) ==
    IF i > Len(orders) \/ Len(acc) >= limit THEN acc
    ELSE IF orders[i].status \in {"NEW", "PROCESSING"} /\ ordLock[i] = NoProc
         THEN SelectRows(i + 1, limit, Append(acc, i))
         ELSE SelectRows(i + 1, limit, acc)

SeqToSet(s) == {s[i] : i \in DOMAIN s}

\* the call of p ends with an error: its transaction is rolled back
SelectFail(p) ==
    /\ Rollback(p)
    /\ sb' = [sb EXCEPT ![p] = [pc |-> "done", orders |-> <<>>, err |-> TRUE]]

\* BeginTx, tx.Query(selectQuery, limit), which locks the selected rows, and the
\* rows.Next loop: UPDATE orders SET status='PROCESSING' WHERE id=$1 for each row
SelectQuery(p, limit) ==
    /\ sb[p].pc = "idle"
    /\ \/ LET rows == SelectRows(1, limit, <<>>)
          IN /\ ordLock' = [o \in OrderIds |->
                               IF o \in SeqToSet(rows) THEN p ELSE ordLock[o]]
             /\ pend' = [pend EXCEPT ![p].orders =
                            {[id |-> o, status |-> "PROCESSING",
                              accrual |-> orders[o].accrual] : o \in SeqToSet(rows)}]
             /\ sb' = [sb EXCEPT ![p] = [pc |-> "commit", orders |-> rows, err |-> FALSE]]
             /\ UNCHANGED <<orders, balances, withdrawals, balLock, credits>>
       \/ SelectFail(p)

\* WithinTransaction's deferred tx.Commit; the batch is returned to the caller
SelectCommit(p) ==
    /\ sb[p].pc = "commit"
    /\ \/ /\ Commit(p)
          /\ sb' = [sb EXCEPT ![p].pc = "done"]
       \/ SelectFail(p)

\* ------------------------------------------------------------- dispatcher
\* OrderProcessor.dispatch receives from ticker.C and calls fetchAndDispatch,
\* which begins with OrdersForProcessing(batchSize)
dispatch(d) ==
    /\ ticks < MaxTicks
    /\ ticks' = ticks + 1
    /\ SelectQuery(d, batchSize)
    /\ UNCHANGED <<jobs, wk, cl, accrualSvc, conc, life>>

OrdersForProcessing(d) ==
    /\ SelectCommit(d)
    /\ UNCHANGED <<jobs, wk, cl, accrualSvc, ticks, conc, life>>

\* fetchAndDispatch: the select of each hand-off.  p.jobs <- order blocks while
\* the channel is full and panics when the channel is closed; <-ctx.Done() ends
\* the tick; an error or an empty batch ends the tick
fetchAndDispatch(d) ==
    /\ sb[d].pc = "done"
    /\ IF sb[d].orders = <<>>
       THEN /\ sb' = [sb EXCEPT ![d] = IdleSb]
            /\ UNCHANGED <<jobs, life>>
       ELSE \/ /\ ~life.closed
               /\ Len(jobs) < JobsCap
               /\ jobs' = Append(jobs, Head(sb[d].orders))
               /\ sb' = [sb EXCEPT ![d].orders = Tail(@)]
               /\ UNCHANGED life
            \/ /\ life.closed
               /\ life' = [life EXCEPT !.crashed = TRUE]
               /\ UNCHANGED <<jobs, sb>>
            \/ /\ GenOf(d) \in life.done
               /\ sb' = [sb EXCEPT ![d] = IdleSb]
               /\ UNCHANGED <<jobs, life>>
    /\ UNCHANGED <<orders, balances, withdrawals, ordLock, balLock, pend, wk, cl,
                   accrualSvc, ticks, credits, conc>>

\* dispatch's case <-ctx.Done(): return, with the deferred ticker.Stop,
\* close(p.jobs), which panics on a channel that is already closed, and wg.Done
dispatchExit(d) ==
    /\ sb[d].pc = "idle"
    /\ GenOf(d) \in life.done
    /\ IF life.closed
       THEN /\ life' = [life EXCEPT !.crashed = TRUE]
            /\ UNCHANGED sb
       ELSE /\ life' = [life EXCEPT !.closed = TRUE]
            /\ sb' = [sb EXCEPT ![d].pc = "exited"]
    /\ UNCHANGED <<orders, balances, withdrawals, ordLock, balLock, pend, jobs, wk, cl,
                   accrualSvc, ticks, credits, conc>>

\* ------------------------------------------------------- accrual service
\* the external service settles an uploaded order once: INVALID, or PROCESSED
\* with an accrual
AccrualSettle(number) ==
    /\ accrualSvc[number].status = "PENDING"
    /\ \E i \in DOMAIN orders : orders[i].number = number
    /\ \E v \in {[status |-> "INVALID", accrual |-> Nil]}
                \cup {[status |-> "PROCESSED", accrual |-> a] : a \in 0..MaxAccrual} :
          accrualSvc' = [accrualSvc EXCEPT ![number] = v]
    /\ UNCHANGED <<orders, balances, withdrawals, ordLock, balLock, pend, sb, jobs, wk,
                   cl, ticks, credits, conc, life>>

\* HTTPClient.Fetch: the outcomes the service can produce for a number now; the
\* status string of a 200 answer is passed on as it is, known or not
Fetch(number) ==
    {[code |-> 429, status |-> "", accrual |-> Nil],
     [code |-> 500, status |-> "", accrual |-> Nil]}
    \cup (IF accrualSvc[number].status = "PENDING"
          THEN {[code |-> 204, status |-> "", accrual |-> Nil],
                [code |-> 200, status |-> "REGISTERED", accrual |-> Nil],
                [code |-> 200, status |-> "PROCESSING", accrual |-> Nil],
                [code |-> 200, status |-> "UNKNOWN", accrual |-> Nil]}
          ELSE {[code |-> 200, status |-> accrualSvc[number].status,
                 accrual |-> accrualSvc[number].accrual]})

\* the Retry-After headers of a 429 answer: absent, a number of seconds, an
\* HTTP date that many seconds from now, or neither
RetryAfterHeaders ==
    {[kind |-> "absent", v |-> 0], [kind |-> "other", v |-> 0]}
    \cup {[kind |-> k, v |-> n] : k \in {"seconds", "date"}, n \in 0..MaxRetryAfter}

\* parseRetryAfter, in seconds: strconv.Atoi, then http.ParseTime and
\* time.Until, else the default of 5 seconds
parseRetryAfter(header) ==
    CASE header.kind = "absent" -> 5
      [] header.kind = "seconds" -> header.v
      [] header.kind = "date" -> header.v
      [] OTHER -> 5

\* the bodies of a 200 answer: a JSON object with status and optional accrual,
\* or bytes that json.Unmarshal rejects
FetchBodies ==
    {[json |-> FALSE, order |-> <<>>, status |-> "", accrual |-> Nil]}
    \cup {[json |-> TRUE, order |-> <<1, 8>>, status |-> st, accrual |-> a] :
             st \in {"REGISTERED", "PROCESSING", "INVALID", "PROCESSED", "UNKNOWN"},
             a \in {Nil} \cup 0..MaxAccrual}

\* the HTTP answers the accrual service, or whatever stands in its place, gives
FetchResponses ==
    {[code |-> 200, body |-> b, header |-> [kind |-> "absent", v |-> 0]] : b \in FetchBodies}
    \cup {[code |-> 429, body |-> CHOOSE b \in FetchBodies : ~b.json, header |-> h] :
              h \in RetryAfterHeaders}
    \cup {[code |-> k, body |-> b, header |-> [kind |-> "absent", v |-> 0]] :
              k \in {201, 202, 204, 206, 304, 400, 404, 500, 503},
              b \in {x \in FetchBodies : ~x.json \/ (x.status = "PROCESSED" /\ x.accrual = 0)}}

\* the result of Fetch without error
FetchSuccess(body) ==
    [err |-> "nil", order |-> body.order, status |-> body.status,
     accrual |-> body.accrual, retryAfter |-> 0]

\* a result of Fetch with an error
FetchErr(err, retryAfter) ==
    [err |-> err, order |-> <<>>, status |-> "", accrual |-> Nil, retryAfter |-> retryAfter]

\* mutant: every 2xx answer with a body is decoded as a success
FetchResultAny2xx(resp) ==
    CASE resp.code \in {200, 201, 202, 206} ->
            IF resp.body.json THEN FetchSuccess(resp.body) ELSE FetchErr("error", 0)
      [] resp.code = 204 -> FetchErr("ErrOrderNotRegistered", 0)
      [] resp.code = 429 -> FetchErr("TooManyRequestsError", parseRetryAfter(resp.header))
      [] OTHER -> FetchErr("error", 0)

\* HTTPClient.Fetch: the switch on resp.StatusCode
FetchResult(resp) ==
    CASE resp.code = 200 ->
            IF resp.body.json THEN FetchSuccess(resp.body) ELSE FetchErr("error", 0)
      [] resp.code = 204 -> FetchErr("ErrOrderNotRegistered", 0)
      [] resp.code = 429 -> FetchErr("TooManyRequestsError", parseRetryAfter(resp.header))
      [] OTHER -> FetchErr("error", 0)

\* a caller of Fetch receives the result for the answer the service gave
FetchCall(c) ==
    /\ cl[c].pc = "idle"
    /\ cl' = [cl EXCEPT ![c].pc = "done", ![c].out = FetchResult(cl[c].resp)]
    /\ UNCHANGED <<orders, balances, withdrawals, ordLock, balLock, pend, sb, jobs, wk,
                   accrualSvc, ticks, credits, conc, life>>

\* ------------------------------------------------------------------- auth
\* Strings are sequences of byte values; these are the bytes the token code
\* names.
Colon == 58
Minus == 45
Plus == 43
Zero == 48
Pad == 61

\* fmt.Sprintf("%d", n)
RECURSIVE FormatDigits(_)
FormatDigits(n) ==
    IF n < 10 THEN <<Zero + n>> ELSE FormatDigits(n \div 10) \o <<Zero + (n % 10)>>

FormatInt(n) == IF n < 0 THEN <<Minus>> \o FormatDigits(0 - n) ELSE FormatDigits(n)

\* strconv.ParseInt(s, 10, 64): an optional sign and at least one digit
RECURSIVE DigitsValue(_, _)
DigitsValue(s, acc) ==
    IF s = <<>> THEN acc ELSE DigitsValue(Tail(s), 10 * acc + (Head(s) - Zero))

ParseInt(s) ==
    LET neg == s # <<>> /\ Head(s) = Minus
        d == IF s # <<>> /\ Head(s) \in {Minus, Plus} THEN Tail(s) ELSE s
    IN IF d = <<>> \/ \E i \in 1..Len(d) : d[i] \notin Zero..(Zero + 9)
       THEN [ok |-> FALSE, v |-> 0]
       ELSE [ok |-> TRUE, v |-> IF neg THEN 0 - DigitsValue(d, 0) ELSE DigitsValue(d, 0)]

\* strings.Split(s, ":")
RECURSIVE SplitFrom(_, _, _)
SplitFrom(s, cur, acc) ==
    IF s = <<>> THEN Append(acc, cur)
    ELSE IF Head(s) = Colon THEN SplitFrom(Tail(s), <<>>, Append(acc, cur))
    ELSE SplitFrom(Tail(s), Append(cur, Head(s)), acc)

Split(s) == SplitFrom(s, <<>>, <<>>)

\* the alphabet of base64.StdEncoding: A-Z, a-z, 0-9, +, /
Base64Char(v) ==
    CASE v < 26 -> 65 + v
      [] v < 52 -> 97 + (v - 26)
      [] v < 62 -> Zero + (v - 52)
      [] v = 62 -> Plus
      [] OTHER -> 47

Base64Value(ch) ==
    CASE ch \in 65..90 -> ch - 65
      [] ch \in 97..122 -> ch - 97 + 26
      [] ch \in Zero..(Zero + 9) -> ch - Zero + 52
      [] ch = Plus -> 62
      [] ch = 47 -> 63
      [] OTHER -> Nil

\* base64.StdEncoding.EncodeToString: three bytes give four characters, the
\* rest is padded with '='
RECURSIVE EncodeToString(_)
EncodeToString(b) ==
    CASE Len(b) = 0 -> <<>>
      [] Len(b) = 1 ->
            <<Base64Char(b[1] \div 4), Base64Char((b[1] % 4) * 16), Pad, Pad>>
      [] Len(b) = 2 ->
            <<Base64Char(b[1] \div 4), Base64Char((b[1] % 4) * 16 + b[2] \div 16),
              Base64Char((b[2] % 16) * 4), Pad>>
      [] OTHER ->
            <<Base64Char(b[1] \div 4), Base64Char((b[1] % 4) * 16 + b[2] \div 16),
              Base64Char((b[2] % 16) * 4 + b[3] \div 64), Base64Char(b[3] % 64)>>
            \o EncodeToString(SubSeq(b, 4, Len(b)))

\* base64.StdEncoding.DecodeString: CR and LF are skipped, the length must be
\* a multiple of four, padding may only end the input, and the unused bits of
\* the last character are not checked (the encoding is not Strict)
RECURSIVE DecodeQuanta(_)
DecodeQuanta(s) ==
    IF s = <<>> THEN [ok |-> TRUE, b |-> <<>>]
    ELSE LET v == [i \in 1..4 |-> Base64Value(s[i])]
             last == Len(s) = 4
         IN CASE v[1] # Nil /\ v[2] # Nil /\ v[3] # Nil /\ v[4] # Nil ->
                    LET rest == DecodeQuanta(SubSeq(s, 5, Len(s)))
                    IN [ok |-> rest.ok,
                        b |-> <<v[1] * 4 + v[2] \div 16,
                                (v[2] % 16) * 16 + v[3] \div 4,
                                (v[3] % 4) * 64 + v[4]>> \o rest.b]
              [] last /\ v[1] # Nil /\ v[2] # Nil /\ v[3] # Nil /\ s[4] = Pad ->
                    [ok |-> TRUE, b |-> <<v[1] * 4 + v[2] \div 16,
                                          (v[2] % 16) * 16 + v[3] \div 4>>]
              [] last /\ v[1] # Nil /\ v[2] # Nil /\ s[3] = Pad /\ s[4] = Pad ->
                    [ok |-> TRUE, b |-> <<v[1] * 4 + v[2] \div 16>>]
              [] OTHER -> [ok |-> FALSE, b |-> <<>>]

IsNewline(ch) == ch \in {10, 13}

NotNewline(ch) == ~IsNewline(ch)

DecodeString(s) ==
    LET t == SelectSeq(s, NotNewline)
    IN IF Len(t) % 4 # 0 THEN [ok |-> FALSE, b |-> <<>>] ELSE DecodeQuanta(t)

\* the secret of the strategy, and one an attacker may sign with
Secret == <<115>>
OtherSecret == <<120>>

\* hmac.New(sha256.New, secret) over the payload: taken as an ideal MAC, one
\* whose value differs whenever the secret or the payload differs
HMACSum(secret, payload) == secret \o payload

\* HMACStrategy.sign
sign(secret, payload) == EncodeToString(HMACSum(secret, payload))

\* the decoded token IssueToken builds: "<userID>:<expires>:<sig>"
RawToken(secret, userID, expires) ==
    LET payload == FormatInt(userID) \o <<Colon>> \o FormatInt(expires)
    IN payload \o <<Colon>> \o sign(secret, payload)

\* HMACStrategy.IssueToken at time now, in seconds
IssueToken(userID, now, ttl) == EncodeToString(RawToken(Secret, userID, now + ttl))

InvalidToken == [ret |-> "ErrInvalidToken", res |-> 0]

\* mutant: the signature is not compared
ParseTokenNoSignature(token, now) ==
    LET raw == DecodeString(token)
        parts == Split(raw.b)
    IN IF ~raw.ok \/ Len(parts) # 3 THEN InvalidToken
       ELSE LET userID == ParseInt(parts[1])
                expires == ParseInt(parts[2])
            IN IF ~userID.ok \/ ~expires.ok \/ expires.v < now THEN InvalidToken
               ELSE [ret |-> "ok", res |-> userID.v]

\* HMACStrategy.ParseToken at time now
ParseToken(token, now) ==
    LET raw == DecodeString(token)
        parts == Split(raw.b)
    IN IF ~raw.ok \/ Len(parts) # 3 THEN InvalidToken
       ELSE LET payload == parts[1] \o <<Colon>> \o parts[2]
                userID == ParseInt(parts[1])
                expires == ParseInt(parts[2])
            IN IF sign(Secret, payload) # parts[3] THEN InvalidToken
               ELSE IF ~userID.ok \/ ~expires.ok THEN InvalidToken
               ELSE IF expires.v < now THEN InvalidToken
               ELSE [ret |-> "ok", res |-> userID.v]

\* the user ids tokens are issued for, and the bytes an attacker writes
AuthUserIDs == {-3, 42}
TamperBytes == {Zero, Colon, 65}

NoToken ==
    [pc |-> "idle", userID |-> 0, expires |-> 0, token |-> <<>>, ttl |-> 0,
     presented |-> "", late |-> FALSE, ret |-> "", res |-> 0]

\* a login: the strategy issues a token for the user
Issue(c, userID) ==
    /\ cl[c].pc = "idle"
    /\ cl' = [cl EXCEPT ![c].pc = "issued", ![c].userID = userID,
                        ![c].expires = ticks + cl[c].ttl,
                        ![c].token = IssueToken(userID, ticks, cl[c].ttl)]
    /\ UNCHANGED <<orders, balances, withdrawals, ordLock, balLock, pend, sb, jobs, wk,
                   accrualSvc, ticks, credits, conc, life>>

\* a request carrying the token as issued
Present(c) ==
    /\ cl[c].pc = "issued"
    /\ LET r == ParseToken(cl[c].token, ticks)
       IN cl' = [cl EXCEPT ![c].presented = "issued", ![c].late = (ticks > cl[c].expires),
                           ![c].ret = r.ret, ![c].res = r.res]
    /\ UNCHANGED <<orders, balances, withdrawals, ordLock, balLock, pend, sb, jobs, wk,
                   accrualSvc, ticks, credits, conc, life>>

\* a request carrying the token with byte i of its payload or signature
\* replaced by b
PresentTampered(c, i, b) ==
    /\ cl[c].pc = "issued"
    /\ LET raw == DecodeString(cl[c].token).b
           sep == Len(raw) - Len(Split(raw)[3])
           r == ParseToken(EncodeToString([raw EXCEPT ![i] = b]), ticks)
       IN /\ i \in 1..Len(raw)
          /\ i # sep
          /\ raw[i] # b
          /\ cl' = [cl EXCEPT ![c].presented = IF i < sep THEN "payload" ELSE "signature",
                              ![c].late = (ticks > cl[c].expires), ![c].ret = r.ret, ![c].res = r.res]
    /\ UNCHANGED <<orders, balances, withdrawals, ordLock, balLock, pend, sb, jobs, wk,
                   accrualSvc, ticks, credits, conc, life>>

\* a request carrying a token for another user, signed with another secret
PresentForged(c, userID) ==
    /\ cl[c].pc = "issued"
    /\ userID # cl[c].userID
    /\ LET r == ParseToken(EncodeToString(RawToken(OtherSecret, userID, cl[c].expires)), ticks)
       IN cl' = [cl EXCEPT ![c].presented = "forged", ![c].late = (ticks > cl[c].expires),
                           ![c].ret = r.ret, ![c].res = r.res]
    /\ UNCHANGED <<orders, balances, withdrawals, ordLock, balLock, pend, sb, jobs, wk,
                   accrualSvc, ticks, credits, conc, life>>

\* a second passes
TimePasses ==
    /\ ticks < MaxNow
    /\ ticks' = ticks + 1
    /\ UNCHANGED <<orders, balances, withdrawals, ordLock, balLock, pend, sb, jobs, wk,
                   cl, accrualSvc, credits, conc, life>>

\* ------------------------------------------------------------- Retry-After
\* a Retry-After header: its text and, when http.ParseTime reads the text as a
\* date, the seconds from now at which that date lies (Nil when it does not)
HeaderOf(h) ==
    CASE h.text = <<>> -> [kind |-> "absent", v |-> 0]
      [] ParseInt(h.text).ok -> [kind |-> "seconds", v |-> ParseInt(h.text).v]
      [] h.date # Nil -> [kind |-> "date", v |-> h.date]
      [] OTHER -> [kind |-> "other", v |-> 0]

\* mutant: a header that is not a number gets the default, date or not
RetryAfterNoDate(h) ==
    IF h.text # <<>> /\ ParseInt(h.text).ok THEN ParseInt(h.text).v ELSE 5

\* parseRetryAfter on the header text, in seconds
RetryAfter(h) == parseRetryAfter(HeaderOf(h))

\* the headers of the 429 answers, each with the delay the table of
\* TestParseRetryAfter gives for its kind: empty, seconds, HTTP date, fallback
SleepHeaders ==
    {[text |-> <<>>, date |-> Nil, want |-> 5],
     [text |-> <<98, 97, 100>>, date |-> Nil, want |-> 5],
     [text |-> <<Zero + 1, 120>>, date |-> Nil, want |-> 5],
     [text |-> <<32, Zero + 1>>, date |-> Nil, want |-> 5]}
    \cup {[text |-> FormatInt(n), date |-> Nil, want |-> n] : n \in 0..MaxRetryAfter}
    \cup {[text |-> <<84, 104, 117, 44>>, date |-> n, want |-> n] : n \in 1..MaxRetryAfter}

NoSleep == [pc |-> "fetch", header |-> <<>>, delay |-> 0, since |-> 0, woke |-> 0]

\* handleOrder on a TooManyRequestsError: the worker calls
\* time.Sleep(e.RetryAfter), e.RetryAfter being what Fetch parsed from the header
RateLimitedSleep(w) ==
    /\ wk[w].pc = "fetch"
    /\ wk' = [wk EXCEPT ![w].pc = "retryAfter", ![w].delay = RetryAfter(wk[w].header),
                        ![w].since = ticks]
    /\ UNCHANGED <<orders, balances, withdrawals, ordLock, balLock, pend, sb, jobs, cl,
                   accrualSvc, ticks, credits, conc, life>>

\* time.Sleep returns once the delay has passed, at once when it is not positive
Wake(w) ==
    /\ wk[w].pc = "retryAfter"
    /\ ticks >= wk[w].since + wk[w].delay
    /\ wk' = [wk EXCEPT ![w].pc = "idle", ![w].woke = ticks]
    /\ UNCHANGED <<orders, balances, withdrawals, ordLock, balLock, pend, sb, jobs, cl,
                   accrualSvc, ticks, credits, conc, life>>

\* a second passes
ClockTick ==
    /\ ticks < MaxClock
    /\ ticks' = ticks + 1
    /\ UNCHANGED <<orders, balances, withdrawals, ordLock, balLock, pend, sb, jobs, wk,
                   cl, accrualSvc, credits, conc, life>>

\* ------------------------------------------------- processor on a stub facade
\* the processor built from the sizes (size, count), started once; life carries
\* the sizes given and the fields NewOrderProcessor derived from them
QueueLife(size, count) ==
    [starts |-> 1, cancel |-> 1, done |-> {}, closed |-> FALSE, crashed |-> FALSE,
     ctl |-> "idle", returned |-> FALSE, app |-> "running", pool |-> "open",
     args |-> <<size, count>>, proc |-> NewOrderProcessor(size, count)]

\* the batches a facade may return for a limit: distinct orders, at most limit
StubBatches(limit) ==
    {<<>>} \cup {<<o>> : o \in OrderIds}
           \cup {b \in {<<o1, o2>> : o1 \in OrderIds, o2 \in OrderIds} :
                    b[1] # b[2] /\ limit >= 2}

\* dispatch on a tick: fetchAndDispatch asks the facade for p.batchSize orders
StubDispatch(d) ==
    /\ sb[d].pc = "idle"
    /\ ticks < MaxTicks
    /\ ticks' = ticks + 1
    /\ \E b \in StubBatches(life.proc.batchSize) :
          sb' = [sb EXCEPT ![d].pc = "done", ![d].orders = b]
    /\ UNCHANGED <<orders, balances, withdrawals, ordLock, balLock, pend, jobs, wk, cl,
                   accrualSvc, credits, conc, life>>

\* fetchAndDispatch: p.jobs <- order proceeds only while the channel holds fewer
\* than its capacity; after the last order the tick is over
StubSend(d) ==
    /\ sb[d].pc = "done"
    /\ IF sb[d].orders = <<>>
       THEN /\ sb' = [sb EXCEPT ![d] = IdleSb]
            /\ UNCHANGED jobs
       ELSE /\ Len(jobs) < life.proc.cap
            /\ jobs' = Append(jobs, Head(sb[d].orders))
            /\ sb' = [sb EXCEPT ![d].orders = Tail(@)]
    /\ UNCHANGED <<orders, balances, withdrawals, ordLock, balLock, pend, wk, cl,
                   accrualSvc, ticks, credits, conc, life>>

\* handleOrder against the stub: the worker is back at its receive
StubHandle(w) ==
    /\ wk[w].pc = "fetch"
    /\ wk' = [wk EXCEPT ![w] = IdleWk]
    /\ UNCHANGED <<orders, balances, withdrawals, ordLock, balLock, pend, sb, jobs, cl,
                   accrualSvc, ticks, credits, conc, life>>

\* ----------------------------------------------------------------- worker
\* mutant: the sleep of one worker holds the whole pool, no worker receives
\* while any worker sleeps
workerPoolSleeps(w) ==
    /\ wk[w].pc = "idle"
    /\ \A v \in AllWorkers : wk[v].pc \notin {"retryAfter", "pollInterval"}
    /\ jobs # <<>>
    /\ wk' = [wk EXCEPT ![w] = [IdleWk EXCEPT !.pc = "fetch", !.order = Head(jobs)]]
    /\ jobs' = Tail(jobs)
    /\ UNCHANGED <<orders, balances, withdrawals, ordLock, balLock, pend, sb, cl,
                   accrualSvc, ticks, credits, conc, life>>

\* OrderProcessor.worker: order, ok := <-p.jobs
worker(w) ==
    /\ wk[w].pc = "idle"
    /\ jobs # <<>>
    /\ wk' = [wk EXCEPT ![w] = [IdleWk EXCEPT !.pc = "fetch", !.order = Head(jobs)]]
    /\ jobs' = Tail(jobs)
    /\ UNCHANGED <<orders, balances, withdrawals, ordLock, balLock, pend, sb, cl,
                   accrualSvc, ticks, credits, conc, life>>

\* OrderProcessor.worker: case <-ctx.Done(): return, or a receive from the
\* closed and empty channel (!ok): return; wg.Done is deferred
workerExit(w) ==
    /\ wk[w].pc = "idle"
    /\ \/ GenOf(w) \in life.done
       \/ life.closed /\ jobs = <<>>
    /\ wk' = [wk EXCEPT ![w].pc = "exited"]
    /\ UNCHANGED <<orders, balances, withdrawals, ordLock, balLock, pend, sb, jobs, cl,
                   accrualSvc, ticks, credits, conc, life>>

\* mutant: a status outside the four known ones ends the order as INVALID
OrderStatusUnknownInvalid(accrualStatus) ==
    CASE accrualStatus \in {"REGISTERED", "PROCESSING"} -> "PROCESSING"
      [] accrualStatus = "INVALID" -> "INVALID"
      [] accrualStatus = "PROCESSED" -> "PROCESSED"
      [] OTHER -> "INVALID"

\* handleOrder's switch on result.Status
OrderStatusOf(accrualStatus) ==
    CASE accrualStatus \in {"REGISTERED", "PROCESSING"} -> "PROCESSING"
      [] accrualStatus = "INVALID" -> "INVALID"
      [] accrualStatus = "PROCESSED" -> "PROCESSED"
      [] OTHER -> "PROCESSING"

\* handleOrder's switch on the fetch error: where the worker goes without
\* calling UpdateOrderStatus.  TooManyRequestsError: time.Sleep(e.RetryAfter);
\* ErrOrderNotRegistered: time.Sleep(p.pollInterval); any other error: return
AfterFetchError(code) ==
    CASE code = 429 -> "retryAfter"
      [] code = 204 -> "pollInterval"
      [] OTHER -> "idle"

\* handleOrder up to the call of UpdateOrderStatus: on any fetch error the
\* worker returns, after a sleep or at once, without an update
handleOrder(w) ==
    /\ wk[w].pc = "fetch"
    /\ \E r \in Fetch(orders[wk[w].order].number) :
          wk' = [wk EXCEPT ![w] =
                    IF r.code # 200
                    THEN IF AfterFetchError(r.code) = "idle" THEN IdleWk
                         ELSE [@ EXCEPT !.pc = AfterFetchError(r.code)]
                    ELSE [@ EXCEPT !.pc = "update", !.status = OrderStatusOf(r.status),
                                   !.accrual = r.accrual]]
    /\ UNCHANGED <<orders, balances, withdrawals, ordLock, balLock, pend, sb, jobs, cl,
                   accrualSvc, ticks, credits, conc, life>>

\* time.Sleep returns in handleOrder; the worker goes back to its receive
Sleep(w) ==
    /\ wk[w].pc \in {"retryAfter", "pollInterval"}
    /\ wk' = [wk EXCEPT ![w] = IdleWk]
    /\ UNCHANGED <<orders, balances, withdrawals, ordLock, balLock, pend, sb, jobs, cl,
                   accrualSvc, ticks, credits, conc, life>>

\* ------------------------------------------------------------ UpdateStatus
\* UpdateStatus returns an error: the transaction is rolled back, handleOrder logs
UpdateStatusFail(w) ==
    /\ Rollback(w)
    /\ wk' = [wk EXCEPT ![w] = IdleWk]

\* mutant: every PROCESSED update takes the credit path
IsCreditAnyProcessed(status, accrual) == status = "PROCESSED"

\* the credit condition of UpdateStatus
IsCredit(status, accrual) == status = "PROCESSED" /\ accrual # Nil /\ accrual > 0

\* BeginTx and UPDATE orders SET status=$1, accrual=$2 WHERE id=$3 (takes the row lock)
UpdateStatusExec(w) ==
    /\ wk[w].pc = "update"
    /\ \/ /\ ordLock[wk[w].order] \in {NoProc, w}
          /\ ordLock' = [ordLock EXCEPT ![wk[w].order] = w]
          /\ pend' = [pend EXCEPT ![w].orders =
                         {[id |-> wk[w].order, status |-> wk[w].status,
                           accrual |-> wk[w].accrual]}]
          /\ wk' = [wk EXCEPT ![w].pc =
                       IF IsCredit(wk[w].status, wk[w].accrual) THEN "credit" ELSE "commit"]
          /\ UNCHANGED <<orders, balances, withdrawals, balLock, credits>>
       \/ UpdateStatusFail(w)

\* mutant: the credit reads current and writes the sum back without taking the
\* row lock
addAccrualTxNoLock(p, userID, sum, order) ==
    /\ balLock' = balLock
    /\ pend' = [pend EXCEPT ![p].balances =
                   {[userID |-> userID,
                     current |-> balances[userID].current + sum,
                     withdrawn |-> balances[userID].withdrawn]},
                            ![p].credit = order]

\* Storage.addAccrualTx: INSERT INTO balances ... ON CONFLICT (user_id) DO UPDATE
\* SET current = balances.current + EXCLUDED.current (takes the row lock)
addAccrualTx(p, userID, sum, order) ==
    /\ balLock[userID] \in {NoProc, p}
    /\ balLock' = [balLock EXCEPT ![userID] = p]
    /\ pend' = [pend EXCEPT ![p].balances =
                   {[userID |-> userID,
                     current |-> balances[userID].current + sum,
                     withdrawn |-> balances[userID].withdrawn]},
                            ![p].credit = order]

\* SELECT user_id FROM orders WHERE id=$1, then addAccrualTx
UpdateStatusCredit(w) ==
    /\ wk[w].pc = "credit"
    /\ \/ /\ addAccrualTx(w, orders[wk[w].order].userID, wk[w].accrual, wk[w].order)
          /\ wk' = [wk EXCEPT ![w].pc = "commit", ![w].userID = orders[wk[w].order].userID]
          /\ UNCHANGED <<orders, balances, withdrawals, ordLock, credits>>
       \/ UpdateStatusFail(w)

\* WithinTransaction's deferred tx.Commit
UpdateStatusCommit(w) ==
    /\ wk[w].pc = "commit"
    /\ \/ /\ Commit(w)
          /\ wk' = [wk EXCEPT ![w] = IdleWk]
       \/ UpdateStatusFail(w)

UpdateStatus(w) ==
    /\ UpdateStatusExec(w) \/ UpdateStatusCredit(w) \/ UpdateStatusCommit(w)
    /\ UNCHANGED <<sb, jobs, cl, accrualSvc, ticks, conc, life>>

\* ---------------------------------------------------------------- Withdraw
WithdrawNumbers == {<<2, 6>>, <<1, 2>>}
\* the sums of the requests: a negative one, zero and the positive ones
WithdrawSums == -1..MaxSum

\* balanceRepository.Withdraw returns ret to the handler
WithdrawReturn(c, ret) ==
    cl' = [cl EXCEPT ![c] = [IdleCl EXCEPT !.pc = "done", !.ret = ret,
                                           !.userID = cl[c].userID]]

\* mutant: the amount is checked before the order number
WithdrawCallAmountFirst(c, userID, order, sum) ==
    /\ cl[c].pc = "idle"
    /\ Len(withdrawals) + Cardinality({d \in Clients : cl[d].pc \notin {"idle", "done"}})
          < MaxWithdrawals
    /\ cl' = [cl EXCEPT ![c] =
                 IF sum <= 0
                 THEN [IdleCl EXCEPT !.pc = "done", !.ret = "ErrInvalidAmount"]
                 ELSE IF ~ValidateOrderNumber(order)
                 THEN [IdleCl EXCEPT !.pc = "done", !.ret = "ErrInvalidOrderNumber"]
                 ELSE [IdleCl EXCEPT !.pc = "select", !.userID = userID,
                                     !.order = order, !.sum = sum]]
    /\ UNCHANGED <<orders, balances, withdrawals, ordLock, balLock, pend, sb, jobs, wk,
                   accrualSvc, ticks, credits, conc, life>>

\* BalanceUseCase.Withdraw: validation, then balanceRepository.Withdraw
WithdrawCall(c, userID, order, sum) ==
    /\ cl[c].pc = "idle"
    /\ Len(withdrawals) + Cardinality({d \in Clients : cl[d].pc \notin {"idle", "done"}})
          < MaxWithdrawals
    /\ cl' = [cl EXCEPT ![c] =
                 IF ~ValidateOrderNumber(order)
                 THEN [IdleCl EXCEPT !.pc = "done", !.ret = "ErrInvalidOrderNumber"]
                 ELSE IF sum <= 0
                 THEN [IdleCl EXCEPT !.pc = "done", !.ret = "ErrInvalidAmount"]
                 ELSE [IdleCl EXCEPT !.pc = "select", !.userID = userID,
                                     !.order = order, !.sum = sum]]
    /\ UNCHANGED <<orders, balances, withdrawals, ordLock, balLock, pend, sb, jobs, wk,
                   accrualSvc, ticks, credits, conc, life>>

WithdrawFail(c, ret) ==
    /\ Rollback(c)
    /\ WithdrawReturn(c, ret)

\* mutant: the read of current without FOR UPDATE
SelectCurrentNoLock(c, userID) == {balLock}

\* mutant: the read locks every row of balances, not the one of the user
SelectCurrentLockTable(c, userID) ==
    IF ~balances[userID].present THEN {balLock}
    ELSE IF \A u \in Users : balLock[u] \in {NoProc, c} THEN {[u \in Users |-> c]}
    ELSE {}

\* SELECT current FROM balances WHERE user_id=$1 FOR UPDATE: the row locks after
\* the statement.  An existing row is locked (the statement waits while another
\* transaction holds it); a missing row yields pgx.ErrNoRows and locks nothing
SelectCurrentForUpdate(c, userID) ==
    IF ~balances[userID].present THEN {balLock}
    ELSE IF balLock[userID] \in {NoProc, c} THEN {[balLock EXCEPT ![userID] = c]}
    ELSE {}

\* mutant: the operands of the solvency check swapped
InsufficientSwapped(current, sum) == sum < current

\* if current < sum { return ErrInsufficientBalance }
Insufficient(current, sum) == current < sum

\* BeginTx, the locked read of current and the solvency check
WithdrawSelect(c) ==
    /\ cl[c].pc = "select"
    /\ \/ \E locked \in SelectCurrentForUpdate(c, cl[c].userID) :
             IF Insufficient(balances[cl[c].userID].current, cl[c].sum)
             THEN WithdrawFail(c, "ErrInsufficientBalance")
             ELSE /\ balLock' = locked
                  /\ cl' = [cl EXCEPT ![c].pc = "write"]
                  /\ UNCHANGED <<orders, balances, withdrawals, ordLock, pend, credits>>
       \/ WithdrawFail(c, "error")

\* mutant: the upsert does not add $3 to withdrawn
WithdrawUpsertKeepsWithdrawn(userID, sum) ==
    IF balances[userID].present
    THEN [userID |-> userID, current |-> balances[userID].current - sum,
          withdrawn |-> balances[userID].withdrawn]
    ELSE [userID |-> userID, current |-> sum, withdrawn |-> sum]

\* INSERT INTO balances VALUES ($1,$2,$3) ON CONFLICT (user_id) DO UPDATE SET
\* current = balances.current - $2, withdrawn = balances.withdrawn + $3
WithdrawUpsert(userID, sum) ==
    IF balances[userID].present
    THEN [userID |-> userID, current |-> balances[userID].current - sum,
          withdrawn |-> balances[userID].withdrawn + sum]
    ELSE [userID |-> userID, current |-> sum, withdrawn |-> sum]

\* the upsert of the balance row (takes the row lock) and INSERT INTO withdrawals
WithdrawWrite(c) ==
    /\ cl[c].pc = "write"
    /\ \/ /\ balLock[cl[c].userID] \in {NoProc, c}
          /\ balLock' = [balLock EXCEPT ![cl[c].userID] = c]
          /\ pend' = [pend EXCEPT ![c].balances = {WithdrawUpsert(cl[c].userID, cl[c].sum)},
                                  ![c].withdrawals = <<[userID |-> cl[c].userID,
                                                        order |-> cl[c].order,
                                                        sum |-> cl[c].sum]>>]
          /\ cl' = [cl EXCEPT ![c].pc = "commit"]
          /\ UNCHANGED <<orders, balances, withdrawals, ordLock, credits>>
       \/ WithdrawFail(c, "error")

\* WithinTransaction's deferred tx.Commit
WithdrawCommit(c) ==
    /\ cl[c].pc = "commit"
    /\ \/ /\ Commit(c)
          /\ WithdrawReturn(c, "ok")
       \/ WithdrawFail(c, "error")

\* the HTTP handler has answered; the client may send another request
WithdrawDone(c) ==
    /\ cl[c].pc = "done"
    /\ cl' = [cl EXCEPT ![c] = IdleCl]
    /\ UNCHANGED <<orders, balances, withdrawals, ordLock, balLock, pend, credits>>

Withdraw(c) ==
    /\ WithdrawSelect(c) \/ WithdrawWrite(c) \/ WithdrawCommit(c) \/ WithdrawDone(c)
    /\ UNCHANGED <<sb, jobs, wk, accrualSvc, ticks, conc, life>>

\* ----------------------------------------------------------------- Summary
\* mutant: the query creates the missing row, as an upsert would
GetSummaryCreatesRow(c, userID) ==
    /\ cl[c].pc = "idle"
    /\ cl' = [cl EXCEPT ![c] = [IdleCl EXCEPT !.pc = "done", !.userID = userID, !.ret = "ok",
                                              !.summary = <<balances[userID].current,
                                                            balances[userID].withdrawn>>]]
    /\ balances' = [balances EXCEPT ![userID].present = TRUE]
    /\ UNCHANGED <<orders, withdrawals, ordLock, balLock, pend, sb, jobs, wk,
                   accrualSvc, ticks, credits, conc, life>>

\* balanceRepository.GetSummary behind BalanceUseCase.Summary and
\* LoyaltyFacade.Balance: SELECT current, withdrawn FROM balances WHERE
\* user_id=$1 on the pool, which reads committed rows and takes no lock;
\* pgx.ErrNoRows yields the zero summary, another error is returned
GetSummary(c, userID) ==
    /\ cl[c].pc = "idle"
    /\ \/ cl' = [cl EXCEPT ![c] =
                    [IdleCl EXCEPT !.pc = "done", !.userID = userID, !.ret = "ok",
                                   !.summary = IF balances[userID].present
                                               THEN <<balances[userID].current,
                                                      balances[userID].withdrawn>>
                                               ELSE <<0, 0>>]]
       \/ cl' = [cl EXCEPT ![c] =
                    [IdleCl EXCEPT !.pc = "done", !.userID = userID, !.ret = "error"]]
    /\ UNCHANGED <<orders, balances, withdrawals, ordLock, balLock, pend, sb, jobs, wk,
                   accrualSvc, ticks, credits, conc, life>>

\* BalanceHandler.Summary has answered; the client may send another request
SummaryDone(c) ==
    /\ cl[c].pc = "done"
    /\ cl[c].summary # <<>> \/ cl[c].ret = "error"
    /\ cl' = [cl EXCEPT ![c] = IdleCl]
    /\ UNCHANGED <<orders, balances, withdrawals, ordLock, balLock, pend, sb, jobs, wk,
                   accrualSvc, ticks, credits, conc, life>>

\* -------------------------------------------------------------- selectors
\* a caller of SelectBatchForProcessing(batchSize) other than the dispatcher:
\* "invoked concurrently N times"
SelectorCall(s) ==
    /\ SelectQuery(s, batchSize)
    /\ LET open == {t \in Selectors \ {s} : sb[t].pc = "commit"}
       IN conc' = [t \in Selectors |->
                      IF t = s THEN open
                      ELSE IF t \in open THEN conc[t] \cup {s} ELSE conc[t]]
    /\ UNCHANGED <<jobs, wk, cl, accrualSvc, ticks, life>>

SelectorCommit(s) ==
    /\ SelectCommit(s)
    /\ UNCHANGED <<jobs, wk, cl, accrualSvc, ticks, conc, life>>

\* the caller has taken the returned batch; it may call again
SelectorReturn(s) ==
    /\ sb[s].pc = "done"
    /\ sb' = [sb EXCEPT ![s] = IdleSb]
    /\ conc' = [t \in Selectors |-> IF t = s THEN {} ELSE conc[t] \ {s}]
    /\ UNCHANGED <<orders, balances, withdrawals, ordLock, balLock, pend, jobs, wk, cl,
                   accrualSvc, ticks, credits, life>>

\* the limit caller s passes: the i-th caller asks for i orders
LimitOf(s) == s[2]

\* a caller of SelectBatchForProcessing(limit) with its own limit
BatchCall(s) ==
    /\ SelectQuery(s, LimitOf(s))
    /\ LET open == {t \in Selectors \ {s} : sb[t].pc = "commit"}
       IN conc' = [t \in Selectors |->
                      IF t = s THEN open
                      ELSE IF t \in open THEN conc[t] \cup {s} ELSE conc[t]]
    /\ UNCHANGED <<jobs, wk, cl, accrualSvc, ticks, life>>

\* --------------------------------------------------------- Start and Stop
\* whether goroutine p was spawned and has not returned
Live(p) ==
    IF p \in Dispatchers THEN sb[p].pc \notin {"none", "exited"}
    ELSE wk[p].pc \notin {"none", "exited"}

\* p.wg: one Add per goroutine spawned, one Done per goroutine returned
wg == Cardinality({p \in Dispatchers \cup AllWorkers : Live(p)})

\* OrderProcessor.Start: a new runCtx, p.cancel overwritten, p.workers workers
\* and one dispatcher spawned
Start ==
    /\ life.ctl = "idle"
    /\ life.starts < MaxStarts
    /\ LET g == life.starts + 1
       IN /\ life' = [life EXCEPT !.starts = g, !.cancel = g, !.returned = FALSE]
          /\ wk' = [w \in DOMAIN wk |-> IF w \in WorkersOf(g) THEN IdleWk ELSE wk[w]]
          /\ sb' = [sb EXCEPT ![Dispatcher(g)] = IdleSb]
    /\ UNCHANGED <<orders, balances, withdrawals, ordLock, balLock, pend, jobs, cl,
                   accrualSvc, ticks, credits, conc>>

\* mutant: Stop waits without calling p.cancel
StopNoCancel ==
    /\ life.ctl = "idle"
    /\ life' = [life EXCEPT !.cancel = 0, !.ctl = "wait", !.returned = FALSE]
    /\ UNCHANGED <<orders, balances, withdrawals, ordLock, balLock, pend, sb, jobs, wk, cl,
                   accrualSvc, ticks, credits, conc>>

\* OrderProcessor.Stop up to p.wg.Wait(): p.cancel is called, if set, and cleared
Stop ==
    /\ life.ctl = "idle"
    /\ life' = [life EXCEPT !.done = IF life.cancel # 0 THEN @ \cup {life.cancel} ELSE @,
                            !.cancel = 0, !.ctl = "wait", !.returned = FALSE]
    /\ UNCHANGED <<orders, balances, withdrawals, ordLock, balLock, pend, sb, jobs, wk, cl,
                   accrualSvc, ticks, credits, conc>>

\* p.wg.Wait() returns and so does Stop
StopReturn ==
    /\ life.ctl = "wait"
    /\ wg = 0
    /\ life' = [life EXCEPT !.ctl = "idle", !.returned = TRUE]
    /\ UNCHANGED <<orders, balances, withdrawals, ordLock, balLock, pend, sb, jobs, wk, cl,
                   accrualSvc, ticks, credits, conc>>

\* the context passed to the g-th Start is cancelled by its owner
CancelCtx(g) ==
    /\ g <= life.starts
    /\ g \notin life.done
    /\ life' = [life EXCEPT !.done = @ \cup {g}]
    /\ UNCHANGED <<orders, balances, withdrawals, ordLock, balLock, pend, sb, jobs, wk, cl,
                   accrualSvc, ticks, credits, conc>>

\* ----------------------------------------------------------------- Upload
\* the inputs of POST /api/user/orders: the order numbers, the empty string and a
\* string with a non-digit
UploadNumbers == OrderNumbers \cup {<<>>, <<1, 10>>}

\* OrderHandler.Upload receives (order, created, err) from the facade
UploadReturn(c, ret, res) ==
    cl' = [cl EXCEPT ![c].pc = "done", ![c].ret = ret, ![c].res = res]

\* OrderUseCase.Register: an invalid number is refused before the repository call
UploadCall(c, userID, number) ==
    /\ cl[c].pc = "idle"
    /\ cl' = [cl EXCEPT ![c] =
                 IF ~ValidateOrderNumber(number)
                 THEN [IdleCl EXCEPT !.pc = "done", !.userID = userID, !.order = number,
                                     !.ret = "ErrInvalidOrderNumber"]
                 ELSE [IdleCl EXCEPT !.pc = "insert", !.userID = userID, !.order = number]]
    /\ UNCHANGED <<orders, balances, withdrawals, ordLock, balLock, pend, sb, jobs, wk,
                   accrualSvc, ticks, credits, conc, life>>

\* character code of a white space character
Space == 32

RECURSIVE TrimLeft(_)
TrimLeft(s) == IF s # <<>> /\ Head(s) = Space THEN TrimLeft(Tail(s)) ELSE s

RECURSIVE TrimRight(_)
TrimRight(s) ==
    IF s # <<>> /\ s[Len(s)] = Space THEN TrimRight(SubSeq(s, 1, Len(s) - 1)) ELSE s

\* strings.TrimSpace: leading and trailing white space removed
TrimSpace(s) == TrimRight(TrimLeft(s))

\* the bodies of POST /api/user/orders: the order numbers, bare and with white
\* space around them, a string with a non-digit, the empty body and a blank one
UploadBodies == UploadNumbers \cup {<<Space>>, <<1, 8, Space>>, <<Space, 2, 6>>}

\* OrderHandler.Upload up to the call of the facade: an empty body, after
\* TrimSpace, is answered at once; otherwise the trimmed number is registered
UploadRequest(c, userID, body) ==
    IF TrimSpace(body) = <<>>
    THEN /\ cl[c].pc = "idle"
         /\ cl' = [cl EXCEPT ![c] = [IdleCl EXCEPT !.pc = "done", !.userID = userID,
                                                   !.ret = "EmptyBody"]]
         /\ UNCHANGED <<orders, balances, withdrawals, ordLock, balLock, pend, sb, jobs,
                        wk, accrualSvc, ticks, credits, conc, life>>
    ELSE UploadCall(c, userID, TrimSpace(body))

\* mutant: an upload of a number the user already owns is answered 202 as well
UploadStatusAlwaysAccepted(ret, res) ==
    CASE ret = "EmptyBody" -> 400
      [] ret = "ErrInvalidOrderNumber" -> 422
      [] ret = "ErrAlreadyExists" -> 409
      [] ret \in {"created", "existing"} -> 202
      [] OTHER -> 500

\* OrderHandler.Upload: the status code written for what the handler holds, the
\* early return on an empty body or (order, created, err) of the facade with
\* res the id of the order returned, 0 for nil
UploadStatus(ret, res) ==
    CASE ret = "EmptyBody" -> 400
      [] ret = "ErrInvalidOrderNumber" -> 422
      [] ret = "ErrAlreadyExists" -> 409
      [] ret = "created" -> 202
      [] ret = "existing" -> IF res # 0 THEN 200 ELSE 202
      [] OTHER -> 500

\* the id of the row with this number, 0 when there is none (pgx.ErrNoRows)
RowByNumber(number) ==
    IF \E i \in DOMAIN orders : orders[i].number = number
    THEN CHOOSE i \in DOMAIN orders : orders[i].number = number
    ELSE 0

\* orderRepository.Create: the INSERT ... ON CONFLICT (number) DO NOTHING RETURNING
\* statement, run on the pool; no returned row means the number is taken
UploadInsert(c) ==
    /\ cl[c].pc = "insert"
    /\ \/ /\ Create(cl[c].userID, cl[c].order)
          /\ IF RowByNumber(cl[c].order) = 0
             THEN UploadReturn(c, "created", Len(orders) + 1)
             ELSE cl' = [cl EXCEPT ![c].pc = "get"]
       \/ /\ UploadReturn(c, "error", 0)
          /\ UNCHANGED orders

\* mutant: the owner of the existing row is not compared with the requester
OwnedByNobodyElse(existing, userID) == FALSE

\* existing.UserID != userID
OwnedByOther(existing, userID) == existing.userID # userID

\* orderRepository.Create after a conflict: GetByNumber, then the owner check
UploadGet(c) ==
    /\ cl[c].pc = "get"
    /\ LET id == RowByNumber(cl[c].order)
       IN \/ IF id = 0 THEN UploadReturn(c, "ErrNotFound", 0)
             ELSE IF OwnedByOther(orders[id], cl[c].userID)
                  THEN UploadReturn(c, "ErrAlreadyExists", id)
                  ELSE UploadReturn(c, "existing", id)
          \/ UploadReturn(c, "error", 0)
    /\ UNCHANGED orders

\* the handler has answered; the client may send another request
UploadDone(c) ==
    /\ cl[c].pc = "done"
    /\ cl' = [cl EXCEPT ![c] = IdleCl]
    /\ UNCHANGED orders

Upload(c) ==
    /\ UploadInsert(c) \/ UploadGet(c) \/ UploadDone(c)
    /\ UNCHANGED <<balances, withdrawals, ordLock, balLock, pend, sb, jobs, wk,
                   accrualSvc, ticks, credits, conc, life>>

\* ------------------------------------------------------- WithinTransaction
\* Storage.WithinTransaction(ctx, fn) for a caller's closure fn that writes one
\* order row and then returns nil, returns an error or panics
FnOutcomes == {"nil", "ErrFn", "panic"}

TxCall(c) ==
    /\ cl[c].pc = "idle"
    /\ orders # <<>>
    /\ cl' = [cl EXCEPT ![c] = [IdleCl EXCEPT !.pc = "begin"]]
    /\ UNCHANGED <<orders, balances, withdrawals, ordLock, balLock, pend, credits>>

\* tx, err := s.pool.BeginTx(...); if err != nil { return err }
TxBegin(c) ==
    /\ cl[c].pc = "begin"
    /\ \/ cl' = [cl EXCEPT ![c].pc = "fn"]
       \/ cl' = [cl EXCEPT ![c].pc = "done", ![c].ret = "ErrBegin"]
    /\ UNCHANGED <<orders, balances, withdrawals, ordLock, balLock, pend, credits>>

\* err = fn(tx): the closure updates row o on tx, then ends with outcome out; a
\* panic leaves the named result err as it was, nil
TxFn(c, o, status, out) ==
    /\ cl[c].pc = "fn"
    /\ ordLock[o] \in {NoProc, c}
    /\ ordLock' = [ordLock EXCEPT ![o] = c]
    /\ pend' = [pend EXCEPT ![c].orders =
                   {[id |-> o, status |-> status, accrual |-> orders[o].accrual]}]
    /\ cl' = [cl EXCEPT ![c].pc = "end", ![c].ret = out, ![c].res = o]
    /\ UNCHANGED <<orders, balances, withdrawals, balLock, credits>>

\* the deferred function's test err != nil, for each way fn can end
ErrIsNil(out) == out # "ErrFn"

\* the deferred function: tx.Rollback when err != nil, else err = tx.Commit; a
\* panic goes on to the caller after it
TxEnd(c) ==
    /\ cl[c].pc = "end"
    /\ IF ErrIsNil(cl[c].ret)
       THEN \/ /\ Commit(c)
               /\ cl' = [cl EXCEPT ![c].pc = "done"]
            \/ /\ Rollback(c)
               /\ cl' = [cl EXCEPT ![c].pc = "done",
                                   ![c].ret = IF @ = "panic" THEN @ ELSE "ErrCommit"]
       ELSE /\ Rollback(c)
            /\ cl' = [cl EXCEPT ![c].pc = "done"]

\* the caller has the result of WithinTransaction
TxDone(c) ==
    /\ cl[c].pc = "done"
    /\ cl' = [cl EXCEPT ![c] = IdleCl]
    /\ UNCHANGED <<orders, balances, withdrawals, ordLock, balLock, pend, credits>>

WithinTransaction(c) ==
    /\ \/ TxCall(c)
       \/ TxBegin(c)
       \/ \E o \in DOMAIN orders, st \in {"PROCESSING", "INVALID"}, out \in FnOutcomes :
             TxFn(c, o, st, out)
       \/ TxEnd(c)
       \/ TxDone(c)
    /\ UNCHANGED <<sb, jobs, wk, accrualSvc, ticks, conc, life>>

\* ------------------------------------------------------------------- Spec
\* Spec: uploads and the reconciliation pipeline, from construction
Next ==
    \/ \E u \in Users, n \in OrderNumbers : Register(u, n)
    \/ dispatch(Disp)
    \/ OrdersForProcessing(Disp)
    \/ fetchAndDispatch(Disp)
    \/ \E n \in ValidNumbers : AccrualSettle(n)
    \/ \E w \in Workers : worker(w)
    \/ \E w \in Workers : handleOrder(w)
    \/ \E w \in Workers : Sleep(w)
    \/ \E w \in Workers : UpdateStatus(w)

Spec == Init /\ [][Next]_vars

\* SpecLedger: the ledger under concurrent credits and withdrawals.  It starts
\* where the pipeline has leased every uploaded order and each worker has
\* received a job.  Two workers may hold the same order: the dispatcher leases a
\* PROCESSING order again on every tick, as Spec shows.
Leased ==
    /\ Len(orders) = Cardinality(ValidNumbers)
    /\ \A i \in DOMAIN orders : orders[i].status = "PROCESSING" /\ orders[i].accrual = Nil
    /\ \A w \in Workers : wk[w].pc = "fetch" /\ wk[w].order \in DOMAIN orders
    /\ jobs = <<>>
    /\ sb[Disp] = IdleSb

LedgerInit ==
    /\ orders \in {<<[userID |-> 1, number |-> <<1, 8>>, status |-> "PROCESSING",
                      accrual |-> Nil],
                     [userID |-> u2, number |-> <<2, 6>>, status |-> "PROCESSING",
                      accrual |-> Nil]>> : u2 \in Users}
    /\ wk \in {f \in [Workers -> {[IdleWk EXCEPT !.pc = "fetch", !.order = o] : o \in OrderIds}] :
                  f[<<"worker", 1>>].order = 1}
    /\ jobs = <<>>
    /\ sb = [p \in SelProcs |->
                IF p \in Dispatchers \ {Disp} THEN [IdleSb EXCEPT !.pc = "none"] ELSE IdleSb]
    /\ life = Started
    /\ Leased
    /\ balances = [u \in Users |-> NoBalance]
    /\ withdrawals = <<>>
    /\ ordLock = [o \in OrderIds |-> NoProc]
    /\ balLock = [u \in Users |-> NoProc]
    /\ pend = [p \in Procs |-> NoPend]
    /\ cl = [c \in Clients |-> IdleCl]
    /\ accrualSvc = [n \in OrderNumbers |-> [status |-> "PENDING", accrual |-> Nil]]
    /\ ticks = MaxTicks
    /\ credits = [o \in OrderIds |-> 0]
    /\ conc = [p \in Selectors |-> {}]

LedgerNext ==
    \/ \E n \in ValidNumbers : AccrualSettle(n)
    \/ \E w \in Workers : handleOrder(w)
    \/ \E w \in Workers : Sleep(w)
    \/ \E w \in Workers : UpdateStatus(w)
    \/ \E c \in Clients, u \in Users, n \in WithdrawNumbers, s \in WithdrawSums :
          WithdrawCall(c, u, n, s)
    \/ \E c \in Clients : Withdraw(c)

SpecLedger == LedgerInit /\ [][LedgerNext]_vars

\* SpecSummary: balance summaries requested while the workers credit the leased
\* orders
SummaryNext ==
    \/ \E n \in ValidNumbers : AccrualSettle(n)
    \/ \E w \in Workers : handleOrder(w)
    \/ \E w \in Workers : Sleep(w)
    \/ \E w \in Workers : UpdateStatus(w)
    \/ \E c \in Clients, u \in Users : GetSummary(c, u)
    \/ \E c \in Clients : SummaryDone(c)

SpecSummary == LedgerInit /\ [][SummaryNext]_vars

\* SpecBatch: callers of SelectBatchForProcessing with different limits over
\* tables whose orders are in any status
BatchInit ==
    /\ orders \in {<<[userID |-> 1, number |-> <<1, 8>>, status |-> s1,
                      accrual |-> IF s1 = "PROCESSED" THEN 0 ELSE Nil],
                     [userID |-> 2, number |-> <<2, 6>>, status |-> s2,
                      accrual |-> IF s2 = "PROCESSED" THEN 0 ELSE Nil]>> :
                       s1 \in {"NEW", "PROCESSING", "INVALID", "PROCESSED"},
                       s2 \in {"NEW", "PROCESSING", "INVALID", "PROCESSED"}}
    /\ balances = [u \in Users |-> NoBalance]
    /\ withdrawals = <<>>
    /\ ordLock = [o \in OrderIds |-> NoProc]
    /\ balLock = [u \in Users |-> NoProc]
    /\ pend = [p \in Procs |-> NoPend]
    /\ sb = [p \in SelProcs |->
                IF p \in Dispatchers \ {Disp} THEN [IdleSb EXCEPT !.pc = "none"] ELSE IdleSb]
    /\ jobs = <<>>
    /\ wk = [w \in AllWorkers |->
                IF w \in Workers THEN IdleWk ELSE [IdleWk EXCEPT !.pc = "none"]]
    /\ life = Started
    /\ cl = [c \in Clients |-> IdleCl]
    /\ accrualSvc = [n \in OrderNumbers |-> [status |-> "PENDING", accrual |-> Nil]]
    /\ ticks = 0
    /\ credits = [o \in OrderIds |-> 0]
    /\ conc = [p \in Selectors |-> {}]

BatchNext ==
    \/ \E s \in Selectors : BatchCall(s)
    \/ \E s \in Selectors : SelectorCommit(s)
    \/ \E s \in Selectors : SelectorReturn(s)

SpecBatch == BatchInit /\ [][BatchNext]_vars

\* SpecSelect: uploads and concurrent callers of SelectBatchForProcessing
SelectNext ==
    \/ \E u \in Users, n \in OrderNumbers : Register(u, n)
    \/ \E s \in Selectors : SelectorCall(s)
    \/ \E s \in Selectors : SelectorCommit(s)
    \/ \E s \in Selectors : SelectorReturn(s)

SpecSelect == Init /\ [][SelectNext]_vars

\* SpecUpload: concurrent uploads, statement by statement, while the dispatcher
\* leases the uploaded orders
UploadNext ==
    \/ \E c \in Clients, u \in Users, n \in UploadNumbers : UploadCall(c, u, n)
    \/ \E c \in Clients : Upload(c)
    \/ dispatch(Disp)
    \/ OrdersForProcessing(Disp)
    \/ fetchAndDispatch(Disp)

SpecUpload == Init /\ [][UploadNext]_vars

\* SpecHttp: concurrent requests POST /api/user/orders, statement by statement
HttpNext ==
    \/ \E c \in Clients, u \in Users, b \in UploadBodies : UploadRequest(c, u, b)
    \/ \E c \in Clients : Upload(c)

SpecHttp == Init /\ [][HttpNext]_vars

\* SpecStop: the started pipeline and its shutdown by Stop or by the
\* cancellation of the context given to Start
StopNext ==
    \/ \E u \in Users, n \in OrderNumbers : Register(u, n)
    \/ dispatch(Disp)
    \/ OrdersForProcessing(Disp)
    \/ fetchAndDispatch(Disp)
    \/ dispatchExit(Disp)
    \/ \E w \in Workers : worker(w)
    \/ \E w \in Workers : workerExit(w)
    \/ \E w \in Workers : handleOrder(w)
    \/ \E w \in Workers : Sleep(w)
    \/ \E w \in Workers : UpdateStatus(w)
    \/ Stop
    \/ StopReturn
    \/ CancelCtx(1)

SpecStop == Init /\ [][StopNext]_vars

\* SpecStopFair: SpecStop where every goroutine that can take a step is
\* scheduled, facade calls and sleeps in progress finish, and the waiting Stop
\* resumes.  Uploads, ticks and the cancellation itself are not forced.
SpecStopFair ==
    /\ SpecStop
    /\ WF_vars(OrdersForProcessing(Disp))
    /\ WF_vars(fetchAndDispatch(Disp))
    /\ WF_vars(dispatchExit(Disp))
    /\ \A w \in Workers :
          /\ WF_vars(workerExit(w))
          /\ WF_vars(handleOrder(w))
          /\ WF_vars(Sleep(w))
          /\ WF_vars(UpdateStatus(w))
    /\ WF_vars(StopReturn)

\* the ticker keeps firing: the ticks after the first MaxTicks, not counted
dispatchOn(d) ==
    /\ ticks = MaxTicks
    /\ SelectQuery(d, batchSize)
    /\ UNCHANGED <<jobs, wk, cl, accrualSvc, ticks, conc, life>>

\* a tick whose SELECT ... FOR UPDATE SKIP LOCKED succeeds
TickOk(d) == (dispatch(d) \/ dispatchOn(d)) /\ sb'[d].pc = "commit"

\* OrdersForProcessing whose commit succeeds
OrdersForProcessingOk(d) == OrdersForProcessing(d) /\ ~sb'[d].err

\* CheckAccrual answers 200
FetchOk(w) == handleOrder(w) /\ wk'[w].pc = "update"

\* a statement or the commit of UpdateStatus succeeds
UpdateStatusOk(w) ==
    /\ \/ UpdateStatusExec(w) /\ wk'[w].pc # "idle"
       \/ UpdateStatusCredit(w) /\ wk'[w].pc # "idle"
       \/ /\ wk[w].pc = "commit"
          /\ Commit(w)
          /\ wk' = [wk EXCEPT ![w] = IdleWk]
    /\ UNCHANGED <<sb, jobs, cl, accrualSvc, ticks, conc, life>>

\* SpecRetry: the reconciliation of an uploaded order by a pipeline whose
\* ticker never stops.  The accrual service answers as in Spec (429, 500, 204
\* and 200 at will) and storage calls succeed.  The goroutines are scheduled
\* fairly and sleeps end; the service settles every order and answers 200 again
\* and again; a statement waiting for a row lock gets it.
RetryInit ==
    /\ orders = <<[userID |-> 1, number |-> <<1, 8>>, status |-> "NEW", accrual |-> Nil]>>
    /\ balances = [u \in Users |-> NoBalance]
    /\ withdrawals = <<>>
    /\ ordLock = [o \in OrderIds |-> NoProc]
    /\ balLock = [u \in Users |-> NoProc]
    /\ pend = [p \in Procs |-> NoPend]
    /\ sb = [p \in SelProcs |->
                IF p \in Dispatchers \ {Disp} THEN [IdleSb EXCEPT !.pc = "none"] ELSE IdleSb]
    /\ jobs = <<>>
    /\ wk = [w \in AllWorkers |->
                IF w \in Workers THEN IdleWk ELSE [IdleWk EXCEPT !.pc = "none"]]
    /\ life = Started
    /\ cl = [c \in Clients |-> IdleCl]
    /\ accrualSvc = [n \in OrderNumbers |-> [status |-> "PENDING", accrual |-> Nil]]
    /\ ticks = 0
    /\ credits = [o \in OrderIds |-> 0]
    /\ conc = [p \in Selectors |-> {}]

RetryNext ==
    \/ TickOk(Disp)
    \/ OrdersForProcessingOk(Disp)
    \/ fetchAndDispatch(Disp)
    \/ \E n \in ValidNumbers : AccrualSettle(n)
    \/ \E w \in Workers : worker(w)
    \/ \E w \in Workers : handleOrder(w)
    \/ \E w \in Workers : Sleep(w)
    \/ \E w \in Workers : UpdateStatusOk(w)

SpecRetry ==
    /\ RetryInit /\ [][RetryNext]_vars
    /\ SF_vars(TickOk(Disp))
    /\ WF_vars(OrdersForProcessingOk(Disp))
    /\ WF_vars(fetchAndDispatch(Disp))
    /\ \A n \in ValidNumbers : WF_vars(AccrualSettle(n))
    /\ \A w \in Workers :
          /\ WF_vars(worker(w))
          /\ SF_vars(FetchOk(w))
          /\ WF_vars(Sleep(w))
          /\ SF_vars(UpdateStatusOk(w))

\* SpecLife: any sequence of Start and Stop calls on a new OrderProcessor, with
\* one order in the table from before
LifeInit ==
    /\ orders = <<[userID |-> 1, number |-> <<1, 8>>, status |-> "NEW", accrual |-> Nil]>>
    /\ balances = [u \in Users |-> NoBalance]
    /\ withdrawals = <<>>
    /\ ordLock = [o \in OrderIds |-> NoProc]
    /\ balLock = [u \in Users |-> NoProc]
    /\ pend = [p \in Procs |-> NoPend]
    /\ sb = [p \in SelProcs |->
                IF p \in Dispatchers THEN [IdleSb EXCEPT !.pc = "none"] ELSE IdleSb]
    /\ jobs = <<>>
    /\ wk = [w \in AllWorkers |-> [IdleWk EXCEPT !.pc = "none"]]
    /\ life = NotStarted
    /\ cl = [c \in Clients |-> IdleCl]
    /\ accrualSvc = [n \in OrderNumbers |-> [status |-> "PENDING", accrual |-> Nil]]
    /\ ticks = 0
    /\ credits = [o \in OrderIds |-> 0]
    /\ conc = [p \in Selectors |-> {}]

\* a panic ends the process: nothing runs after it
Alive == ~life.crashed

LifeNext ==
    \/ Alive /\ Start
    \/ Alive /\ Stop
    \/ Alive /\ StopReturn
    \/ \E g \in Gens : Alive /\ CancelCtx(g)
    \/ \E d \in Dispatchers : Alive /\ dispatch(d)
    \/ \E d \in Dispatchers : Alive /\ OrdersForProcessing(d)
    \/ \E d \in Dispatchers : Alive /\ fetchAndDispatch(d)
    \/ \E d \in Dispatchers : Alive /\ dispatchExit(d)
    \/ \E w \in AllWorkers : Alive /\ worker(w)
    \/ \E w \in AllWorkers : Alive /\ workerExit(w)
    \/ \E w \in AllWorkers : Alive /\ handleOrder(w)
    \/ \E w \in AllWorkers : Alive /\ Sleep(w)
    \/ \E w \in AllWorkers : Alive /\ UpdateStatus(w)

SpecLife == LifeInit /\ [][LifeNext]_vars

\* SpecLuhn: ValidateOrderNumber applied to every string of at most MaxDigits
\* characters (the digits and one non-digit) and to the strings of its test
LuhnChars == 0..10

LuhnSamples ==
    {<<7, 9, 9, 2, 7, 3, 9, 8, 7, 1, 3>>,
     <<2, 7, 1, 8, 2, 8, 1, 8, 2, 8, 4, 5, 9, 0, 4, 5>>,
     <<6, 0, 1, 1, 1, 1, 1, 1, 1, 1, 1, 1, 1, 1, 1, 7>>,
     <<1, 2, 3, 4, 5, 6>>,
     <<10, 11, 12, 13, 14, 15>>,
     <<7, 9, 9, 2, 7, 3, 9, 8, 7, 1, 0>>}

LuhnInputs ==
    UNION {[1..n -> LuhnChars] : n \in 0..MaxDigits} \cup LuhnSamples

LuhnInit ==
    /\ orders = <<>>
    /\ balances = [u \in Users |-> NoBalance]
    /\ withdrawals = <<>>
    /\ ordLock = [o \in OrderIds |-> NoProc]
    /\ balLock = [u \in Users |-> NoProc]
    /\ pend = [p \in Procs |-> NoPend]
    /\ sb = [p \in SelProcs |->
                IF p \in Dispatchers \ {Disp} THEN [IdleSb EXCEPT !.pc = "none"] ELSE IdleSb]
    /\ jobs = <<>>
    /\ wk = [w \in AllWorkers |->
                IF w \in Workers THEN IdleWk ELSE [IdleWk EXCEPT !.pc = "none"]]
    /\ life = Started
    /\ cl \in {[c \in Clients |-> [IdleCl EXCEPT !.order = n]] : n \in LuhnInputs}
    /\ accrualSvc = [n \in OrderNumbers |-> [status |-> "PENDING", accrual |-> Nil]]
    /\ ticks = 0
    /\ credits = [o \in OrderIds |-> 0]
    /\ conc = [p \in Selectors |-> {}]

\* a caller evaluates ValidateOrderNumber on its string
Validate(c) ==
    /\ cl[c].pc = "idle"
    /\ cl' = [cl EXCEPT ![c].pc = "done",
                        ![c].ret = IF ValidateOrderNumber(cl[c].order)
                                   THEN "true" ELSE "false"]
    /\ UNCHANGED <<orders, balances, withdrawals, ordLock, balLock, pend, sb, jobs, wk,
                   accrualSvc, ticks, credits, conc, life>>

LuhnNext == \E c \in Clients : Validate(c)

SpecLuhn == LuhnInit /\ [][LuhnNext]_vars

\* SpecFetch: HTTPClient.Fetch applied to every answer of FetchResponses, by two
\* callers
FetchInit ==
    /\ orders = <<>>
    /\ balances = [u \in Users |-> NoBalance]
    /\ withdrawals = <<>>
    /\ ordLock = [o \in OrderIds |-> NoProc]
    /\ balLock = [u \in Users |-> NoProc]
    /\ pend = [p \in Procs |-> NoPend]
    /\ sb = [p \in SelProcs |->
                IF p \in Dispatchers \ {Disp} THEN [IdleSb EXCEPT !.pc = "none"] ELSE IdleSb]
    /\ jobs = <<>>
    /\ wk = [w \in AllWorkers |->
                IF w \in Workers THEN IdleWk ELSE [IdleWk EXCEPT !.pc = "none"]]
    /\ life = Started
    /\ cl \in [Clients -> {[pc |-> "idle", resp |-> r, out |-> FetchErr("", 0)] :
                              r \in FetchResponses}]
    /\ accrualSvc = [n \in OrderNumbers |-> [status |-> "PENDING", accrual |-> Nil]]
    /\ ticks = 0
    /\ credits = [o \in OrderIds |-> 0]
    /\ conc = [p \in Selectors |-> {}]

FetchNext == \E c \in Clients : FetchCall(c)

SpecFetch == FetchInit /\ [][FetchNext]_vars

\* ------------------------------------------------------ application stop
\* run: the signal context or app.Done fires and app.Stop is called; fx runs
\* the OnStop hooks in the reverse of the order the modules registered them,
\* the hook of app.Module first, the hook of postgres.Module last
AppStop ==
    /\ life.app = "running"
    /\ life' = [life EXCEPT !.app = "stop"]
    /\ UNCHANGED <<orders, balances, withdrawals, ordLock, balLock, pend, sb, jobs, wk, cl,
                   accrualSvc, ticks, credits, conc>>

\* the OnStop hook of app.Module calls p.Worker.Stop()
OnStop ==
    /\ life.app = "stop"
    /\ ~life.returned
    /\ Stop

\* p.Worker.Stop() has returned: the hook calls p.Server.Shutdown, and the
\* server accepts no further request
ServerShutdown ==
    /\ life.app = "stop"
    /\ life.returned
    /\ life' = [life EXCEPT !.app = "httpShutdown"]
    /\ UNCHANGED <<orders, balances, withdrawals, ordLock, balLock, pend, sb, jobs, wk, cl,
                   accrualSvc, ticks, credits, conc>>

\* a request whose handler has not returned
Active(c) == cl[c].pc \notin {"idle", "done"}

\* Server.Shutdown returns nil once no request is being handled
ShutdownDone ==
    /\ life.app = "httpShutdown"
    /\ \A c \in Clients : ~Active(c)
    /\ life' = [life EXCEPT !.app = "httpDone"]
    /\ UNCHANGED <<orders, balances, withdrawals, ordLock, balLock, pend, sb, jobs, wk, cl,
                   accrualSvc, ticks, credits, conc>>

\* Server.Shutdown returns the context's error when ShutdownTimeout passes with
\* a request still being handled; the hook returns it and fx goes on
ShutdownTimeout ==
    /\ life.app = "httpShutdown"
    /\ \E c \in Clients : Active(c)
    /\ life' = [life EXCEPT !.app = "httpTimeout"]
    /\ UNCHANGED <<orders, balances, withdrawals, ordLock, balLock, pend, sb, jobs, wk, cl,
                   accrualSvc, ticks, credits, conc>>

\* mutant: the storage hook runs before the hook of app.Module
StorageCloseFirst ==
    /\ life.app = "stop"
    /\ life.ctl = "idle"
    /\ ~life.returned
    /\ life.pool = "open"
    /\ life' = [life EXCEPT !.pool = "closed"]
    /\ UNCHANGED <<orders, balances, withdrawals, ordLock, balLock, pend, sb, jobs, wk, cl,
                   accrualSvc, ticks, credits, conc>>

\* the OnStop hook of postgres.Module: storage.Close()
StorageClose ==
    /\ life.app \in {"httpDone", "httpTimeout"}
    /\ life.pool = "open"
    /\ life' = [life EXCEPT !.pool = "closed"]
    /\ UNCHANGED <<orders, balances, withdrawals, ordLock, balLock, pend, sb, jobs, wk, cl,
                   accrualSvc, ticks, credits, conc>>

\* the server accepts a request until Shutdown is called
Serve(c, userID, number) ==
    /\ life.app \in {"running", "stop"}
    /\ UploadCall(c, userID, number)

\* the numbers uploaded while the application stops: one valid, one not
AppNumbers == {<<1, 8>>, <<1, 2>>}

\* SpecApp: the running application (uploads, pipeline) and its stop sequence
AppNext ==
    \/ \E c \in Clients, u \in Users, n \in AppNumbers : Serve(c, u, n)
    \/ \E c \in Clients : Upload(c)
    \/ dispatch(Disp)
    \/ OrdersForProcessing(Disp)
    \/ fetchAndDispatch(Disp)
    \/ dispatchExit(Disp)
    \/ \E w \in Workers : worker(w)
    \/ \E w \in Workers : workerExit(w)
    \/ \E w \in Workers : handleOrder(w)
    \/ \E w \in Workers : Sleep(w)
    \/ \E w \in Workers : UpdateStatus(w)
    \/ CancelCtx(1)
    \/ AppStop
    \/ OnStop
    \/ StopReturn
    \/ ServerShutdown
    \/ ShutdownDone
    \/ ShutdownTimeout
    \/ StorageClose

SpecApp == Init /\ [][AppNext]_vars

\* SpecSleep: workers that received a 429 answer with each kind of Retry-After
\* header, and the clock
SleepInit ==
    /\ orders = <<>>
    /\ balances = [u \in Users |-> NoBalance]
    /\ withdrawals = <<>>
    /\ ordLock = [o \in OrderIds |-> NoProc]
    /\ balLock = [u \in Users |-> NoProc]
    /\ pend = [p \in Procs |-> NoPend]
    /\ sb = [p \in SelProcs |->
                IF p \in Dispatchers \ {Disp} THEN [IdleSb EXCEPT !.pc = "none"] ELSE IdleSb]
    /\ jobs = <<>>
    /\ wk \in {f \in [AllWorkers -> {[NoSleep EXCEPT !.header = h] : h \in SleepHeaders}
                                     \cup {[IdleWk EXCEPT !.pc = "none"]}] :
                  \A w \in AllWorkers : (f[w].pc = "none") <=> (w \notin Workers)}
    /\ life = Started
    /\ cl = [c \in Clients |-> IdleCl]
    /\ accrualSvc = [n \in OrderNumbers |-> [status |-> "PENDING", accrual |-> Nil]]
    /\ ticks = 0
    /\ credits = [o \in OrderIds |-> 0]
    /\ conc = [p \in Selectors |-> {}]

SleepNext ==
    \/ \E w \in Workers : RateLimitedSleep(w)
    \/ \E w \in Workers : Wake(w)
    \/ ClockTick

SpecSleep == SleepInit /\ [][SleepNext]_vars

\* SpecQueue: a processor built from every pair of sizes in -1..MaxSize runs on
\* a stub facade
QueueInit ==
    /\ orders = <<>>
    /\ balances = [u \in Users |-> NoBalance]
    /\ withdrawals = <<>>
    /\ ordLock = [o \in OrderIds |-> NoProc]
    /\ balLock = [u \in Users |-> NoProc]
    /\ pend = [p \in Procs |-> NoPend]
    /\ sb = [p \in SelProcs |->
                IF p \in Dispatchers \ {Disp} THEN [IdleSb EXCEPT !.pc = "none"] ELSE IdleSb]
    /\ jobs = <<>>
    /\ \E size \in -1..MaxSize, count \in -1..MaxSize :
          /\ life = QueueLife(size, count)
          /\ wk = [w \in AllWorkers |->
                      IF w[2] <= life.proc.workers THEN IdleWk
                      ELSE [IdleWk EXCEPT !.pc = "none"]]
    /\ cl = [c \in Clients |-> IdleCl]
    /\ accrualSvc = [n \in OrderNumbers |-> [status |-> "PENDING", accrual |-> Nil]]
    /\ ticks = 0
    /\ credits = [o \in OrderIds |-> 0]
    /\ conc = [p \in Selectors |-> {}]

QueueNext ==
    \/ StubDispatch(Disp)
    \/ StubSend(Disp)
    \/ \E w \in AllWorkers : worker(w)
    \/ \E w \in AllWorkers : StubHandle(w)

SpecQueue == QueueInit /\ [][QueueNext]_vars

\* SpecStarve: the pipeline of SpecRetry over two orders uploaded one after the
\* other.  The accrual service never registers the older order (it keeps
\* answering 204, 429, 500 or a non-final status for it) and may settle the
\* newer one.  The ticker keeps firing, the goroutines are scheduled fairly,
\* sleeps end and storage calls succeed.
StarveInit ==
    /\ orders = <<[userID |-> 1, number |-> <<1, 8>>, status |-> "NEW", accrual |-> Nil],
                  [userID |-> 2, number |-> <<2, 6>>, status |-> "NEW", accrual |-> Nil]>>
    /\ balances = [u \in Users |-> NoBalance]
    /\ withdrawals = <<>>
    /\ ordLock = [o \in OrderIds |-> NoProc]
    /\ balLock = [u \in Users |-> NoProc]
    /\ pend = [p \in Procs |-> NoPend]
    /\ sb = [p \in SelProcs |->
                IF p \in Dispatchers \ {Disp} THEN [IdleSb EXCEPT !.pc = "none"] ELSE IdleSb]
    /\ jobs = <<>>
    /\ wk = [w \in AllWorkers |->
                IF w \in Workers THEN IdleWk ELSE [IdleWk EXCEPT !.pc = "none"]]
    /\ life = Started
    /\ cl = [c \in Clients |-> IdleCl]
    /\ accrualSvc = [n \in OrderNumbers |-> [status |-> "PENDING", accrual |-> Nil]]
    /\ ticks = 0
    /\ credits = [o \in OrderIds |-> 0]
    /\ conc = [p \in Selectors |-> {}]

StarveNext ==
    \/ TickOk(Disp)
    \/ OrdersForProcessingOk(Disp)
    \/ fetchAndDispatch(Disp)
    \/ AccrualSettle(<<2, 6>>)
    \/ \E w \in Workers : worker(w)
    \/ \E w \in Workers : handleOrder(w)
    \/ \E w \in Workers : Sleep(w)
    \/ \E w \in Workers : UpdateStatusOk(w)

SpecStarve ==
    /\ StarveInit /\ [][StarveNext]_vars
    /\ SF_vars(TickOk(Disp))
    /\ WF_vars(OrdersForProcessingOk(Disp))
    /\ WF_vars(fetchAndDispatch(Disp))
    /\ \A w \in Workers :
          /\ WF_vars(worker(w))
          /\ WF_vars(handleOrder(w))
          /\ WF_vars(Sleep(w))
          /\ SF_vars(UpdateStatusOk(w))

\* SpecAuth: tokens are issued, time passes, and the tokens come back as
\* issued, altered in one byte, or forged
AuthInit ==
    /\ orders = <<>>
    /\ balances = [u \in Users |-> NoBalance]
    /\ withdrawals = <<>>
    /\ ordLock = [o \in OrderIds |-> NoProc]
    /\ balLock = [u \in Users |-> NoProc]
    /\ pend = [p \in Procs |-> NoPend]
    /\ sb = [p \in SelProcs |->
                IF p \in Dispatchers \ {Disp} THEN [IdleSb EXCEPT !.pc = "none"] ELSE IdleSb]
    /\ jobs = <<>>
    /\ wk = [w \in AllWorkers |->
                IF w \in Workers THEN IdleWk ELSE [IdleWk EXCEPT !.pc = "none"]]
    /\ life = Started
    /\ cl \in {[c \in Clients |-> [NoToken EXCEPT !.ttl = t]] : t \in 1..MaxTTL}
    /\ accrualSvc = [n \in OrderNumbers |-> [status |-> "PENDING", accrual |-> Nil]]
    /\ ticks = 0
    /\ credits = [o \in OrderIds |-> 0]
    /\ conc = [p \in Selectors |-> {}]

AuthNext ==
    \/ \E c \in Clients, u \in AuthUserIDs : Issue(c, u)
    \/ \E c \in Clients : Present(c)
    \/ \E c \in Clients, i \in 1..MaxTokenLen, b \in TamperBytes : PresentTampered(c, i, b)
    \/ \E c \in Clients, u \in AuthUserIDs : PresentForged(c, u)
    \/ TimePasses

SpecAuth == AuthInit /\ [][AuthNext]_vars

\* SpecTx: callers of WithinTransaction on the uploaded orders
TxNext ==
    \/ \E u \in Users, n \in OrderNumbers : Register(u, n)
    \/ \E c \in Clients : WithinTransaction(c)

SpecTx == Init /\ [][TxNext]_vars

\* ----------------------------------------------------------------- claims
RECURSIVE SumWithdrawals(_, _)
\* the sum of Withdrawal.sum over the first i withdrawal rows of user u
SumWithdrawals(u, i) ==
    IF i = 0 THEN 0
    ELSE (IF withdrawals[i].userID = u THEN withdrawals[i].sum ELSE 0)
         + SumWithdrawals(u, i - 1)

RECURSIVE SumProcessed(_, _)
\* the sum of accrual over the PROCESSED orders of user u among the first i rows
SumProcessed(u, i) ==
    IF i = 0 THEN 0
    ELSE (IF /\ orders[i].userID = u
             /\ orders[i].status = "PROCESSED"
             /\ orders[i].accrual # Nil
          THEN orders[i].accrual ELSE 0)
         + SumProcessed(u, i - 1)

\* C1: every order that is PROCESSED with accrual a > 0 has had a credited to
\* its owner's balance exactly once
C1_CreditedExactlyOnce ==
    \A o \in DOMAIN orders :
        IsCredit(orders[o].status, orders[o].accrual) => credits[o] = 1

\* C2: BalanceRow.current is never negative in a committed state
C2_CurrentNonNegative == \A u \in Users : balances[u].current >= 0

\* C2 witness: two Withdraw transactions on the same user are open at once, one
\* about to commit the whole balance away while the other waits to read it, and
\* a credit to a balance is in progress
C2_Witness ==
    \E c \in Clients, d \in Clients :
        /\ c # d
        /\ cl[c].pc = "commit" /\ cl[d].pc = "select"
        /\ cl[c].userID = cl[d].userID
        /\ balances[cl[c].userID].current = cl[c].sum
        /\ \E w \in Workers : wk[w].pc \in {"credit", "commit"}

\* C3: for every user, (sum of accrual over PROCESSED orders) minus (sum of
\* withdrawals) equals BalanceRow.current
C3_LedgerBalanced ==
    \A u \in Users :
        SumProcessed(u, Len(orders)) - SumWithdrawals(u, Len(withdrawals))
            = balances[u].current

\* C4: for every user, BalanceRow.withdrawn equals the sum of the user's
\* withdrawal rows and is not negative
C4_WithdrawnMatches ==
    \A u \in Users :
        /\ balances[u].withdrawn = SumWithdrawals(u, Len(withdrawals))
        /\ balances[u].withdrawn >= 0

\* C4 witness: a user with two committed withdrawals
C4_Witness ==
    \E u \in Users :
        /\ balances[u].withdrawn >= 2
        /\ Cardinality({i \in DOMAIN withdrawals : withdrawals[i].userID = u}) >= 2

\* C5: a second UpdateStatus(orderId, PROCESSED, a), a > 0, on an order that the
\* first call already made PROCESSED with accrual a leaves the balances unchanged
C5_SecondUpdateNoCredit ==
    [][\A w \in Workers :
          (/\ wk[w].pc = "commit" /\ wk'[w].pc = "idle"
           /\ IsCredit(wk[w].status, wk[w].accrual)
           /\ orders[wk[w].order].status = "PROCESSED"
           /\ orders[wk[w].order].accrual = wk[w].accrual
           /\ credits[wk[w].order] >= 1)
              => balances' = balances]_vars

\* C6: an order's status never leaves PROCESSED or INVALID and never returns
\* from PROCESSING to NEW
C6_StatusMonotone ==
    [][\A o \in DOMAIN orders :
          /\ orders[o].status \in {"PROCESSED", "INVALID"}
                => orders'[o].status = orders[o].status
          /\ orders[o].status = "PROCESSING" => orders'[o].status # "NEW"]_vars

\* C7: UpdateStatus(orderId, PROCESSED, a), a > 0, is atomic: no step before the
\* end of the call changes a committed row, and the step that ends it either
\* commits the order row (PROCESSED, a) together with the credit of a, or
\* leaves orders and balances as they were
C7_UpdateStatusAtomic ==
    [][\A w \in Workers :
          (/\ wk[w].pc \in {"update", "credit", "commit"}
           /\ wk'[w] # wk[w]
           /\ IsCredit(wk[w].status, wk[w].accrual))
              => LET o == wk[w].order
                     u == orders[o].userID
                 IN \/ /\ wk'[w].pc = "idle"
                       /\ orders'[o].status = "PROCESSED"
                       /\ orders'[o].accrual = wk[w].accrual
                       /\ balances'[u].present
                       /\ balances'[u].current = balances[u].current + wk[w].accrual
                       /\ credits'[o] = credits[o] + 1
                    \/ /\ orders' = orders
                       /\ balances' = balances
                       /\ credits' = credits]_vars

\* C7 witness: one order is PROCESSED and credited, while the UpdateStatus for
\* another order, settled PROCESSED with a positive accrual, returned an error:
\* that order is still PROCESSING and no worker holds it
C7_Witness ==
    \E o \in DOMAIN orders, q \in DOMAIN orders :
        /\ IsCredit(orders[o].status, orders[o].accrual)
        /\ credits[o] = 1
        /\ balances[orders[o].userID].present
        /\ balances[orders[o].userID].current >= orders[o].accrual
        /\ orders[q].status = "PROCESSING" /\ credits[q] = 0
        /\ accrualSvc[orders[q].number].status = "PROCESSED"
        /\ \A w \in Workers : wk[w].pc = "idle"

\* C8: a Withdraw that returns nil has decreased current by sum, increased
\* withdrawn by sum and appended one Withdrawal{userId, orderNumber, sum} in one
\* commit; every other step of the call leaves the ledger unchanged
C8_WithdrawAtomic ==
    [][\A c \in Clients :
          (cl[c].pc \in {"select", "write", "commit"} /\ cl'[c] # cl[c])
              => LET u == cl[c].userID
                 IN IF cl'[c].pc = "done" /\ cl'[c].ret = "ok"
                    THEN /\ balances'[u].current = balances[u].current - cl[c].sum
                         /\ balances'[u].withdrawn = balances[u].withdrawn + cl[c].sum
                         /\ \A v \in Users \ {u} : balances'[v] = balances[v]
                         /\ withdrawals' = Append(withdrawals,
                                                  [userID |-> u, order |-> cl[c].order,
                                                   sum |-> cl[c].sum])
                    ELSE balances' = balances /\ withdrawals' = withdrawals]_vars

\* C8 witness: a Withdraw has returned nil after an earlier one had
C8_Witness ==
    \E c \in Clients :
        /\ cl[c].pc = "done" /\ cl[c].ret = "ok"
        /\ Len(withdrawals) = 2
        /\ balances[cl[c].userID].withdrawn > 0

\* C9: a Withdraw that reads a missing balance row or current < sum never goes
\* on to write: it returns ErrInsufficientBalance (or the storage error of the
\* read itself) and leaves balances and withdrawals unchanged
C9_InsufficientRefused ==
    [][\A c \in Clients :
          (/\ cl[c].pc = "select" /\ cl'[c] # cl[c]
           /\ \/ ~balances[cl[c].userID].present
              \/ balances[cl[c].userID].current < cl[c].sum)
              => /\ cl'[c].pc = "done"
                 /\ cl'[c].ret \in {"ErrInsufficientBalance", "error"}
                 /\ balances' = balances
                 /\ withdrawals' = withdrawals]_vars

\* C9 witness: a Withdraw was refused for a user whose row exists with current 0
\* and another for a user without a row
C9_Witness ==
    \E c \in Clients, d \in Clients :
        /\ cl[c].pc = "done" /\ cl[c].ret = "ErrInsufficientBalance"
        /\ balances[cl[c].userID].present /\ balances[cl[c].userID].current = 0
        /\ cl[d].pc = "done" /\ cl[d].ret = "ErrInsufficientBalance"
        /\ ~balances[cl[d].userID].present

NewOrder(u, n) == [userID |-> u, number |-> n, status |-> "NEW", accrual |-> Nil]

\* no two rows of a table state have the same number
UniqueNumbers(rows) ==
    \A i \in DOMAIN rows, j \in DOMAIN rows : rows[i].number = rows[j].number => i = j

\* C11: an upload of a number the same user already owns inserts no row, leaves
\* the existing row (status, accrual) as it is and returns that row with
\* created = false; the upload of a free number inserts one NEW row and returns
\* created = true; no number ever has two rows
C11_UploadIdempotent ==
    [][/\ UniqueNumbers(orders')
       /\ \A c \in Clients :
             (cl[c].pc \in {"insert", "get"} /\ cl'[c] # cl[c])
                 => LET u == cl[c].userID
                        n == cl[c].order
                        rows == {i \in DOMAIN orders : orders[i].number = n}
                    IN /\ rows = {}
                             => /\ cl'[c].pc = "done"
                                /\ cl'[c].ret \in {"created", "error"}
                                /\ cl'[c].ret = "created"
                                      => /\ orders' = Append(orders, NewOrder(u, n))
                                         /\ cl'[c].res = Len(orders')
                                /\ cl'[c].ret = "error" => orders' = orders
                       /\ \A i \in rows :
                             orders[i].userID = u
                                 => /\ orders' = orders
                                    /\ \/ cl'[c].pc = "get"
                                       \/ /\ cl'[c].pc = "done"
                                          /\ cl'[c].ret \in {"existing", "error"}
                                          /\ cl'[c].ret = "existing" => cl'[c].res = i]_vars

\* C11 witness: the same user uploaded a number twice; the first call returned
\* created, the second returned the existing row, which a lease had meanwhile
\* moved to PROCESSING
C11_Witness ==
    \E c \in Clients, d \in Clients :
        /\ cl[c].pc = "done" /\ cl[c].ret = "created"
        /\ cl[d].pc = "done" /\ cl[d].ret = "existing"
        /\ cl[c].userID = cl[d].userID /\ cl[c].order = cl[d].order
        /\ cl[c].res = cl[d].res
        /\ orders[cl[d].res].status = "PROCESSING"
        /\ Cardinality({i \in DOMAIN orders : orders[i].number = cl[d].order}) = 1

\* C12: an upload of a number another user owns returns ErrAlreadyExists, inserts
\* no row and leaves the existing row unchanged; of two uploads of one number by
\* different users at most one succeeds and the other receives ErrAlreadyExists
C12_NumberGloballyUnique ==
    [][/\ UniqueNumbers(orders')
       /\ \A c \in Clients :
             (cl[c].pc \in {"insert", "get"} /\ cl'[c] # cl[c])
                 => \A i \in DOMAIN orders :
                        (orders[i].number = cl[c].order /\ orders[i].userID # cl[c].userID)
                            => /\ orders' = orders
                               /\ \/ cl'[c].pc = "get"
                                  \/ /\ cl'[c].pc = "done"
                                     /\ cl'[c].ret \in {"ErrAlreadyExists", "error"}
       /\ \A c \in Clients, d \in Clients :
             (/\ cl'[c].pc = "done" /\ cl'[d].pc = "done"
              /\ cl'[c].order = cl'[d].order /\ cl'[c].userID # cl'[d].userID
              /\ cl'[c].ret \in {"created", "existing"})
                 => cl'[d].ret \in {"ErrAlreadyExists", "error"}]_vars

\* C12 witness: two users uploaded the same number; one owns the row, the other
\* was refused with ErrAlreadyExists
C12_Witness ==
    \E c \in Clients, d \in Clients :
        /\ cl[c].pc = "done" /\ cl[c].ret = "created"
        /\ cl[d].pc = "done" /\ cl[d].ret = "ErrAlreadyExists"
        /\ cl[c].order = cl[d].order /\ cl[c].userID # cl[d].userID
        /\ orders[cl[d].res].userID = cl[c].userID
        /\ Cardinality({i \in DOMAIN orders : orders[i].number = cl[d].order}) = 1

\* inputs that fail the Luhn check: empty, a non-digit, a wrong checksum
InvalidSamples == {<<>>, <<1, 10>>, <<1, 2>>}

\* C20: Register with a number that fails the Luhn check returns
\* ErrInvalidOrderNumber at once, without a repository call, and no row of the
\* orders table ever carries such a number
C20_InvalidNumberRefused ==
    [][/\ \A c \in Clients :
             (cl[c].pc = "idle" /\ cl'[c].pc # "idle" /\ cl'[c].order \in InvalidSamples)
                 => /\ cl'[c].pc = "done"
                    /\ cl'[c].ret = "ErrInvalidOrderNumber"
                    /\ orders' = orders
       /\ \A i \in DOMAIN orders' : orders'[i].number \notin InvalidSamples]_vars

\* C20 witness: an empty and a non-digit upload were both refused while an order
\* is stored
C20_Witness ==
    \E c \in Clients, d \in Clients :
        /\ cl[c].pc = "done" /\ cl[c].order = <<>> /\ cl[c].ret = "ErrInvalidOrderNumber"
        /\ cl[d].pc = "done" /\ cl[d].order = <<1, 10>>
        /\ cl[d].ret = "ErrInvalidOrderNumber"
        /\ orders # <<>>

\* C17: WithinTransaction does not call fn when the transaction cannot be begun;
\* it commits when fn returns nil (returning nil, or the commit error with
\* nothing written) and rolls back when fn returns an error or panics, handing
\* fn's error or the panic on unchanged
C17_CommitOrRollback ==
    [][\A c \in Clients :
          /\ (cl[c].pc = "begin" /\ cl'[c] # cl[c])
                => \/ cl'[c].pc = "fn"
                   \/ cl'[c].pc = "done" /\ cl'[c].ret = "ErrBegin" /\ orders' = orders
          /\ (cl[c].pc = "end" /\ cl'[c] # cl[c])
                => /\ cl'[c].pc = "done"
                   /\ cl[c].ret = "nil"
                         => \/ /\ cl'[c].ret = "nil"
                               /\ \A w \in pend[c].orders : orders'[w.id].status = w.status
                            \/ /\ cl'[c].ret = "ErrCommit"
                               /\ orders' = orders
                   /\ cl[c].ret \in {"ErrFn", "panic"}
                         => /\ cl'[c].ret = cl[c].ret
                            /\ orders' = orders]_vars

\* worker w's step ends the handling of its order in an error: a fetch error
\* (to a sleep or straight back to the receive) or a failed UpdateStatus,
\* which writes nothing
EndsInError(w) ==
    \/ wk[w].pc = "fetch" /\ wk'[w].pc \in {"retryAfter", "pollInterval", "idle"}
    \/ /\ wk[w].pc \in {"update", "credit", "commit"}
       /\ wk'[w].pc = "idle"
       /\ orders' = orders

\* C14: when the handling of an order ends in an error (rate limit, not
\* registered, another fetch error, a failed UpdateStatus) the worker keeps
\* running, the order's stored status is still NEW or PROCESSING and no order
\* row and no balance changed; after a fetch error no transaction was opened
C14_ErrorLeavesRetryable ==
    [][\A w \in Workers :
          EndsInError(w)
              => /\ orders[wk[w].order].status \in {"NEW", "PROCESSING"}
                 /\ orders' = orders
                 /\ balances' = balances
                 /\ wk'[w].pc \in {"retryAfter", "pollInterval", "idle"}
                 /\ wk[w].pc = "fetch" => pend'[w] = NoPend /\ pend[w] = NoPend]_vars

\* C16: once the dispatcher has closed the handoff channel and every worker has
\* exited, no order is left in the channel: what the dispatcher had sent was
\* received and handled before the workers returned
C16_WorkersDrain ==
    (life.closed /\ \A w \in Workers : wk[w].pc = "exited") => jobs = <<>>

\* C19: the live goroutines of the pool number at most 1 + workers; they number
\* exactly 1 + workers while the processor is started and its context is not
\* cancelled, and none is left when Stop has returned
C19_PoolSize ==
    /\ wg <= 1 + workers
    /\ (life.cancel # 0 /\ life.done = {}) => wg = 1 + workers
    /\ life.returned => wg = 0

\* C18: while a worker sleeps after a rate-limit answer, nothing else waits for
\* it: the dispatcher can tick, commit its lease and send, and every other
\* worker can receive from the channel, fetch and update, whenever its own step
\* is due; the sleeper holds no transaction and no row lock
C18_SleepBlocksOneWorker ==
    \A w \in Workers :
        wk[w].pc = "retryAfter"
            => /\ (sb[Disp].pc = "idle" /\ ticks < MaxTicks) => ENABLED dispatch(Disp)
               /\ sb[Disp].pc = "commit" => ENABLED OrdersForProcessing(Disp)
               /\ (sb[Disp].pc = "done" /\ Len(jobs) < JobsCap)
                     => ENABLED fetchAndDispatch(Disp)
               /\ pend[w] = NoPend
               /\ \A o \in OrderIds : ordLock[o] # w
               /\ \A u \in Users : balLock[u] # w
               /\ \A v \in Workers \ {w} :
                     /\ (wk[v].pc = "idle" /\ jobs # <<>>) => ENABLED worker(v)
                     /\ wk[v].pc = "fetch" => ENABLED handleOrder(v)
                     /\ wk[v].pc \in {"update", "credit", "commit"}
                           => ENABLED UpdateStatus(v)

\* C18 witness: one worker sleeps on a rate limit while the other is at its
\* receive with an order waiting in the channel
C18_Witness ==
    \E w \in Workers, v \in Workers :
        /\ w # v
        /\ wk[w].pc = "retryAfter"
        /\ wk[v].pc = "idle"
        /\ jobs # <<>>

\* C15: on a processor started once, after Stop is called or the context given
\* to Start is cancelled, the dispatcher and every worker eventually exit and a
\* waiting Stop returns; the handoff channel is closed in the step in which the
\* dispatcher exits, never by anyone else, nothing is sent on it afterwards and
\* nothing panics
C15_StopJoinsAll ==
    /\ [](life.closed => sb[Disp].pc = "exited")
    /\ [](~life.crashed)
    /\ [][/\ (~life.closed /\ life'.closed)
                => /\ sb[Disp].pc = "idle" /\ sb'[Disp].pc = "exited"
                   /\ 1 \in life.done
                   /\ wk' = wk /\ jobs' = jobs
          /\ life.closed => (life'.closed /\ Len(jobs') <= Len(jobs))]_vars
    /\ (1 \in life.done) ~> (wg = 0)
    /\ (life.ctl = "wait") ~> life.returned

\* C15 witness: Stop has returned after the pipeline leased and handed off an
\* order; the channel is closed and no goroutine is left
C15_Witness ==
    /\ life.returned
    /\ life.closed
    /\ wg = 0
    /\ sb[Disp].pc = "exited"
    /\ \A w \in Workers : wk[w].pc = "exited"
    /\ ticks > 0
    /\ \E i \in DOMAIN orders : orders[i].status = "PROCESSING"

\* worker w handles order o, got 429 for it and sleeps; the service has settled
\* the order PROCESSED, which is what any later fetch that is answered returns
RateLimited(w, o) ==
    /\ o \in DOMAIN orders
    /\ wk[w].pc = "retryAfter"
    /\ wk[w].order = o
    /\ accrualSvc[orders[o].number].status = "PROCESSED"

\* worker w holds the only job for order o: the dispatcher has no batch with o,
\* the channel does not hold o and no other worker handles it
OnlyJob(w, o) ==
    /\ o \notin SeqToSet(sb[Disp].orders)
    /\ o \notin SeqToSet(jobs)
    /\ \A v \in Workers \ {w} : wk[v].order # o

C21_WithdrawPreValidates ==
    [][\A c \in Clients :
          /\ \A u \in Users, n \in WithdrawNumbers, s \in WithdrawSums :
                WithdrawCall(c, u, n, s)
                    => /\ n = <<1, 2>>
                             => /\ cl'[c].pc = "done"
                                /\ cl'[c].ret = "ErrInvalidOrderNumber"
                       /\ (n = <<2, 6>> /\ s <= 0)
                             => /\ cl'[c].pc = "done"
                                /\ cl'[c].ret = "ErrInvalidAmount"
                       /\ (n = <<2, 6>> /\ s > 0)
                             => /\ cl'[c].pc = "select"
                                /\ cl'[c].userID = u
                                /\ cl'[c].order = n
                                /\ cl'[c].sum = s
                       /\ balances' = balances /\ withdrawals' = withdrawals
                       /\ balLock' = balLock /\ pend' = pend
          /\ (cl[c].pc \in {"select", "write", "commit"} /\ cl'[c].pc = "done")
                => cl'[c].ret \in {"ok", "ErrInsufficientBalance", "error"}
          /\ (cl[c].pc \in {"select", "write", "commit"} /\ cl'[c] # cl[c])
                => cl'[c].pc \in {"write", "commit", "done"}]_vars

\* C21 witness: one request was refused for its order number, another for its
\* amount, and a withdrawal is stored
C21_Witness ==
    \E c \in Clients, d \in Clients :
        /\ cl[c].pc = "done" /\ cl[c].ret = "ErrInvalidOrderNumber"
        /\ cl[d].pc = "done" /\ cl[d].ret = "ErrInvalidAmount"
        /\ withdrawals # <<>>

\* the order status the worker is to store for a fetched accrual status
StatusFor ==
    [st \in {"REGISTERED", "PROCESSING", "INVALID", "PROCESSED", "UNKNOWN"} |->
        IF st = "INVALID" THEN "INVALID"
        ELSE IF st = "PROCESSED" THEN "PROCESSED"
        ELSE "PROCESSING"]

\* C22: a worker that goes on from a fetch to UpdateOrderStatus does so for a
\* 200 answer of the service, with the order it received, the answer's accrual
\* and the status REGISTERED, PROCESSING -> PROCESSING, INVALID -> INVALID,
\* PROCESSED -> PROCESSED, anything else -> PROCESSING; the call writes that
\* one row with these values and the worker returns to its receive after it,
\* without a second call
C22_UpdateOncePerFetch ==
    [][\A w \in Workers :
          /\ (wk[w].pc = "fetch" /\ wk'[w].pc = "update")
                => /\ wk'[w].order = wk[w].order
                   /\ \E r \in Fetch(orders[wk[w].order].number) :
                         /\ r.code = 200
                         /\ wk'[w].status = StatusFor[r.status]
                         /\ wk'[w].accrual = r.accrual
          /\ (wk[w].pc \in {"update", "credit", "commit"} /\ wk'[w] # wk[w])
                => /\ wk'[w].pc \in {"credit", "commit", "idle"}
                   /\ wk'[w].pc # "idle"
                         => /\ wk'[w].order = wk[w].order
                            /\ wk'[w].status = wk[w].status
                            /\ wk'[w].accrual = wk[w].accrual
                            /\ pend'[w].orders = {[id |-> wk[w].order,
                                                   status |-> wk[w].status,
                                                   accrual |-> wk[w].accrual]}
                   /\ orders' # orders
                         => /\ wk[w].pc = "commit"
                            /\ orders' = [orders EXCEPT
                                             ![wk[w].order].status = wk[w].status,
                                             ![wk[w].order].accrual = wk[w].accrual]]_vars

\* C22 witness: one worker has committed PROCESSED with the fetched accrual for
\* an order and is back at its receive; the other is about to update another
\* order to PROCESSING
C22_Witness ==
    \E w \in Workers, v \in Workers, o \in DOMAIN orders :
        /\ wk[w].pc = "idle"
        /\ orders[o].status = "PROCESSED"
        /\ orders[o].accrual = accrualSvc[orders[o].number].accrual
        /\ orders[o].accrual > 0
        /\ credits[o] = 1
        /\ wk[v].pc = "update" /\ wk[v].status = "PROCESSING" /\ wk[v].order # o

\* a digit of the checksum: doubled, and reduced by 9 when the double exceeds 9
LuhnDigit(d, doubled) ==
    IF ~doubled THEN d
    ELSE IF 2 * d > 9 THEN 2 * d - 9 ELSE 2 * d

RECURSIVE Checksum(_, _)
\* the Luhn checksum of the first i characters of s: every second digit of s,
\* counted from the right, is doubled
Checksum(s, i) ==
    IF i = 0 THEN 0
    ELSE LuhnDigit(s[i], (Len(s) - i) % 2 = 1) + Checksum(s, i - 1)

\* C23: ValidateOrderNumber is true exactly for the non-empty strings of decimal
\* digits whose Luhn checksum is divisible by 10; it accepts 79927398713,
\* 2718281828459045 and 6011111111111117 and rejects the empty string, 123456,
\* abcdef and 79927398710
C23_LuhnExactly ==
    \A c \in Clients :
        cl[c].pc = "done"
            => LET s == cl[c].order
               IN /\ cl[c].ret = "true"
                        <=> /\ s # <<>>
                            /\ \A i \in DOMAIN s : s[i] \in 0..9
                            /\ Checksum(s, Len(s)) % 10 = 0
                  /\ s \in {<<7, 9, 9, 2, 7, 3, 9, 8, 7, 1, 3>>,
                            <<2, 7, 1, 8, 2, 8, 1, 8, 2, 8, 4, 5, 9, 0, 4, 5>>,
                            <<6, 0, 1, 1, 1, 1, 1, 1, 1, 1, 1, 1, 1, 1, 1, 7>>}
                        => cl[c].ret = "true"
                  /\ s \in {<<>>, <<1, 2, 3, 4, 5, 6>>, <<10, 11, 12, 13, 14, 15>>,
                            <<7, 9, 9, 2, 7, 3, 9, 8, 7, 1, 0>>}
                        => cl[c].ret = "false"

\* C23 witness: 2718281828459045 was accepted
C23_Witness ==
    \E c \in Clients :
        /\ cl[c].pc = "done"
        /\ cl[c].order = <<2, 7, 1, 8, 2, 8, 1, 8, 2, 8, 4, 5, 9, 0, 4, 5>>
        /\ cl[c].ret = "true"

\* C24: POST /api/user/orders is answered 400 exactly for a body that is empty
\* after trimming, 422 exactly for a number that fails the Luhn check, 202
\* exactly when the request inserted the order row, 200 only when the requester
\* owns the row of the number and 409 only when another user does, both with
\* nothing written, and 500 only for a storage error, with nothing written; a
\* request that finds the number owned is answered 200 (own), 409 (other) or 500
C24_UploadStatusCodes ==
    [][\A c \in Clients :
          (cl[c].pc \in {"idle", "insert", "get"} /\ cl'[c].pc = "done")
              => LET st == UploadStatus(cl'[c].ret, cl'[c].res)
                     u == cl'[c].userID
                     n == cl'[c].order
                     own == \E i \in DOMAIN orders :
                               orders[i].number = n /\ orders[i].userID = u
                     other == \E i \in DOMAIN orders :
                                 orders[i].number = n /\ orders[i].userID # u
                 IN /\ st \in {202, 200, 409, 422, 400, 500}
                    /\ st = 400 <=> n = <<>>
                    /\ st = 422 <=> n \in {<<1, 10>>, <<1, 2>>}
                    /\ st = 202 <=> orders' = Append(orders, NewOrder(u, n))
                    /\ st # 202 => orders' = orders
                    /\ st = 200 => own
                    /\ st = 409 => other
                    /\ st = 500 => cl'[c].ret \in {"error", "ErrNotFound"}
                    /\ (cl[c].pc = "get" /\ own) => st \in {200, 500}
                    /\ (cl[c].pc = "get" /\ other) => st \in {409, 500}]_vars

\* C24 witness: a request answered 200 for a number its user had uploaded
\* before, next to one answered 409 for the same number
C24_Witness ==
    \E c \in Clients, d \in Clients :
        /\ cl[c].pc = "done" /\ UploadStatus(cl[c].ret, cl[c].res) = 200
        /\ cl[d].pc = "done" /\ UploadStatus(cl[d].ret, cl[d].res) = 409
        /\ cl[c].order = cl[d].order
        /\ Len(orders) = 2

\* C25: a balance summary writes nothing: orders, balances, withdrawals, locks
\* and open transactions are as before; for a user without a balance row it
\* returns current 0 and withdrawn 0 (or the storage error of the query, never
\* a not-found error) and the user still has no row; for a user with a row it
\* returns the committed current and withdrawn
C25_SummaryReadsOnly ==
    [][\A c \in Clients :
          (cl[c].pc = "idle" /\ cl'[c].pc = "done")
              => LET u == cl'[c].userID
                 IN /\ balances' = balances
                    /\ orders' = orders /\ withdrawals' = withdrawals
                    /\ ordLock' = ordLock /\ balLock' = balLock /\ pend' = pend
                    /\ cl'[c].ret \in {"ok", "error"}
                    /\ cl'[c].ret = "ok"
                          => /\ ~balances[u].present
                                   => /\ cl'[c].summary = <<0, 0>>
                                      /\ ~balances'[u].present
                             /\ balances[u].present
                                   => cl'[c].summary = <<balances[u].current,
                                                         balances[u].withdrawn>>]_vars

\* C25 witness: the zero summary was returned for a user without a row while a
\* worker's uncommitted transaction holds the first credit of that user
C25_Witness ==
    \E c \in Clients, w \in Workers :
        /\ cl[c].pc = "done" /\ cl[c].ret = "ok" /\ cl[c].summary = <<0, 0>>
        /\ ~balances[cl[c].userID].present
        /\ \E b \in pend[w].balances : b.userID = cl[c].userID /\ b.current > 0

\* C26: Fetch turns the HTTP answer into exactly one result: 200 gives the
\* decoded body (or the decoding error), 204 gives ErrOrderNotRegistered, 429
\* gives TooManyRequestsError with the delay parsed from Retry-After (5 seconds
\* when the header is absent or unreadable), every other status a generic error.
C26_FetchOutcome ==
    \A c \in Clients :
        (cl[c].pc = "done") =>
            LET r == cl[c].resp
                o == cl[c].out
            IN /\ o.err \in {"nil", "ErrOrderNotRegistered", "TooManyRequestsError", "error"}
               /\ (o.err = "nil") <=> (r.code = 200 /\ r.body.json)
               /\ (o.err = "nil") =>
                     /\ o.order = r.body.order
                     /\ o.status = r.body.status
                     /\ o.accrual = r.body.accrual
               /\ (o.err = "ErrOrderNotRegistered") <=> (r.code = 204)
               /\ (o.err = "TooManyRequestsError") <=> (r.code = 429)
               /\ (o.err = "TooManyRequestsError") =>
                     o.retryAfter = IF r.header.kind \in {"seconds", "date"}
                                    THEN r.header.v ELSE 5
               /\ (o.err = "error") <=> (r.code \notin {204, 429} /\ ~(r.code = 200 /\ r.body.json))

C26_Witness ==
    \E c, d \in Clients :
        /\ cl[c].pc = "done" /\ cl[c].resp.code = 429 /\ cl[c].out.retryAfter = 5
        /\ cl[d].pc = "done" /\ cl[d].resp.code = 201 /\ cl[d].resp.body.json
        /\ cl[d].out.err = "error"

\* C27: a token issued for userID parses back to userID as long as its expiry
\* has not passed; presented after its expiry, or with a byte of its payload or
\* signature altered, it yields ErrInvalidToken.
C27_TokenRoundTrip ==
    \A c \in Clients :
        (cl[c].pc = "issued" /\ cl[c].presented # "") =>
            /\ (cl[c].presented = "issued" /\ ~cl[c].late) =>
                   (cl[c].ret = "ok" /\ cl[c].res = cl[c].userID)
            /\ (cl[c].presented = "issued" /\ cl[c].late) =>
                   cl[c].ret = "ErrInvalidToken"
            /\ (cl[c].presented \in {"payload", "signature", "forged"}) =>
                   cl[c].ret = "ErrInvalidToken"

C27_Witness ==
    \E c, d \in Clients :
        /\ cl[c].presented = "issued" /\ cl[c].userID = -3
        /\ cl[c].ret = "ok" /\ cl[c].res = -3
        /\ cl[d].presented = "payload" /\ cl[d].ret = "ErrInvalidToken"
        /\ ~cl[d].late

\* C28: on application stop the worker is cancelled and joined, Stop having
\* returned, before the HTTP server's shutdown begins, and the pool is closed
\* only after the worker's Stop and the server's Shutdown have both returned.
C28_ShutdownOrder ==
    /\ (life.app \in {"httpShutdown", "httpDone", "httpTimeout"}) =>
           (life.returned /\ wg = 0 /\ 1 \in life.done)
    /\ (life.pool = "closed") =>
           (life.returned /\ wg = 0 /\ life.app \in {"httpDone", "httpTimeout"})

C28_Witness ==
    /\ life.pool = "closed"
    /\ life.app = "httpDone"
    /\ \E o \in DOMAIN orders : orders[o].status = "PROCESSING"

\* C29: a user's balance row is created lazily: it exists once the user's first
\* accrual credit or first withdrawal attempt has completed, and nothing else
\* creates it.
C29_RowCreatedLazily ==
    /\ \A c \in Clients :
          (cl[c].pc = "done" /\ cl[c].ret \in {"ok", "ErrInsufficientBalance"}) =>
              balances[cl[c].userID].present
    /\ \A o \in DOMAIN orders : credits[o] > 0 => balances[orders[o].userID].present
    /\ \A u \in Users :
          balances[u].present =>
              \/ \E o \in DOMAIN orders : orders[o].userID = u /\ credits[o] > 0
              \/ \E i \in DOMAIN withdrawals : withdrawals[i].userID = u

\* C30: credits and debits of one user's balance are serialized: every commit
\* that changes a balance row applies one operation to the row as committed at
\* that moment (a credit adds its accrual, a withdrawal that fits subtracts its
\* sum), so the committed rows are those of the operations run one after another
\* in commit order: no update is lost and a withdrawal never commits against a
\* balance it no longer fits.
C30_Serialized ==
    [][\A u \in Users :
          (balances'[u] # balances[u]) =>
              \/ \E w \in Workers :
                    /\ wk[w].pc = "commit" /\ wk'[w].pc = "idle"
                    /\ wk[w].userID = u
                    /\ IsCredit(wk[w].status, wk[w].accrual)
                    /\ balances'[u].present
                    /\ balances'[u].current = balances[u].current + wk[w].accrual
                    /\ balances'[u].withdrawn = balances[u].withdrawn
              \/ \E c \in Clients :
                    /\ cl[c].pc = "commit" /\ cl'[c].pc = "done" /\ cl'[c].ret = "ok"
                    /\ cl[c].userID = u
                    /\ balances[u].present
                    /\ balances[u].current >= cl[c].sum
                    /\ balances'[u].current = balances[u].current - cl[c].sum
                    /\ balances'[u].withdrawn = balances[u].withdrawn + cl[c].sum]_vars

\* C30 witness: two withdrawals of the same user that each fit the balance but
\* together exceed it, one about to commit and the other waiting for the row,
\* while a credit to the same user waits for the row too
C30_Witness ==
    \E c \in Clients, d \in Clients, w \in Workers :
        /\ c # d
        /\ cl[c].pc = "commit" /\ cl[d].pc = "select"
        /\ cl[c].userID = cl[d].userID
        /\ balLock[cl[c].userID] = c
        /\ cl[c].sum <= balances[cl[c].userID].current
        /\ cl[d].sum <= balances[cl[c].userID].current
        /\ cl[c].sum + cl[d].sum > balances[cl[c].userID].current
        /\ wk[w].pc = "credit"
        /\ orders[wk[w].order].userID = cl[c].userID

\* the orders a SelectBatchForProcessing call may take: NEW or PROCESSING and
\* not locked by another transaction
Eligible == {o \in DOMAIN orders : orders[o].status \in {"NEW", "PROCESSING"}
                                    /\ ordLock[o] = NoProc}

\* C31: SelectBatchForProcessing(limit) takes at most limit orders, each NEW or
\* PROCESSING and unlocked when selected, the earliest uploaded of the eligible
\* ones in ascending order, never an INVALID or PROCESSED one; a call that
\* fails returns no orders and changes no order's status, a call that succeeds
\* returns the orders it took, all PROCESSING in storage.
C31_BatchSelection ==
    [][\A s \in Selectors :
          /\ (sb[s].pc = "idle" /\ sb'[s].pc = "commit") =>
                LET rows == sb'[s].orders
                IN /\ Len(rows) <= LimitOf(s)
                   /\ SeqToSet(rows) \subseteq Eligible
                   /\ \A i \in DOMAIN rows, j \in DOMAIN rows : i < j => rows[i] < rows[j]
                   /\ \A e \in Eligible \ SeqToSet(rows) :
                         Len(rows) = LimitOf(s) /\ e > rows[Len(rows)]
                   /\ orders' = orders
          /\ (sb[s].pc # "done" /\ sb'[s].pc = "done") =>
                IF sb'[s].err
                THEN sb'[s].orders = <<>> /\ orders' = orders
                ELSE /\ sb'[s].orders = sb[s].orders
                     /\ \A o \in DOMAIN orders :
                           orders'[o] = IF o \in SeqToSet(sb[s].orders)
                                        THEN [orders[o] EXCEPT !.status = "PROCESSING"]
                                        ELSE orders[o]]_vars

\* C31 witness: a call with limit 2 returned the one eligible order of a table
\* whose other order is terminal, while another call's transaction failed
C31_Witness ==
    \E s \in Selectors, t \in Selectors :
        /\ LimitOf(s) = 2
        /\ sb[s].pc = "done" /\ ~sb[s].err /\ Len(sb[s].orders) = 1
        /\ \E o \in DOMAIN orders : orders[o].status \in {"INVALID", "PROCESSED"}
        /\ sb[t].pc = "done" /\ sb[t].err

\* C32: a tick whose OrdersForProcessing call failed enqueues nothing and leaves
\* the dispatcher in its loop, ready for the next tick; once the cancellation
\* has fired the dispatcher hands off no further order, and it leaves the orders
\* it did not hand off as they are in storage.
C32_DispatcherErrorsAndCancel ==
    [][/\ (sb[Disp].pc = "done" /\ sb[Disp].err /\ sb'[Disp] # sb[Disp]) =>
              (jobs' = jobs /\ sb'[Disp] = IdleSb /\ ~life'.closed)
       /\ (1 \in life.done) => Len(jobs') <= Len(jobs)
       /\ (sb[Disp].pc = "done" /\ sb[Disp].orders # <<>> /\ sb'[Disp] = IdleSb) =>
              (1 \in life.done /\ orders' = orders /\ jobs' = jobs)]_vars

\* C33: an UpdateStatus call whose status is not PROCESSED, or whose accrual is
\* absent or not positive, writes the order row only: none of its steps creates
\* or changes a balance row, takes a balance lock or counts as a credit.
C33_NoCreditNoBalance ==
    [][\A w \in Workers :
          (/\ wk[w].pc \in {"update", "credit", "commit"}
           /\ wk'[w] # wk[w]
           /\ ~(wk[w].status = "PROCESSED" /\ wk[w].accrual # Nil /\ wk[w].accrual > 0))
              => /\ wk[w].pc # "credit" /\ wk'[w].pc # "credit"
                 /\ balances' = balances
                 /\ withdrawals' = withdrawals
                 /\ credits' = credits
                 /\ balLock' = balLock
                 /\ pend'[w].balances = {}
                 /\ \/ orders' = orders
                    \/ /\ wk[w].pc = "commit"
                       /\ orders' = [orders EXCEPT ![wk[w].order].status = wk[w].status,
                                                   ![wk[w].order].accrual = wk[w].accrual]]_vars

\* C33 witness: one order was committed PROCESSED with accrual 0 and another
\* INVALID, and their owners have no balance row
C33_Witness ==
    \E o \in DOMAIN orders, q \in DOMAIN orders :
        /\ orders[o].status = "PROCESSED" /\ orders[o].accrual = 0
        /\ orders[q].status = "INVALID"
        /\ ~balances[orders[o].userID].present
        /\ ~balances[orders[q].userID].present
        /\ \A w \in Workers : wk[w].pc = "idle"

\* C34: the Retry-After header parses to n seconds for an integer n, to the time
\* left until the date for an HTTP date, and to 5 seconds when it is empty or
\* malformed; the rate-limited worker sleeps that long before it returns.
C34_RetryAfterDelay ==
    \A w \in Workers :
        /\ (wk[w].pc \in {"retryAfter", "idle"}) => wk[w].delay = wk[w].header.want
        /\ (wk[w].pc = "idle") => wk[w].woke - wk[w].since >= wk[w].header.want

\* C34 witness: one worker slept the default 5 seconds for a malformed header,
\* the other the seconds left until the date of its header
C34_Witness ==
    \E w \in Workers, x \in Workers :
        /\ wk[w].pc = "idle" /\ wk[w].header.text = <<98, 97, 100>>
        /\ wk[w].woke - wk[w].since = 5
        /\ wk[x].pc = "idle" /\ wk[x].header.date = 2 /\ wk[x].delay = 2

OpUser(p) ==
    IF p \in Workers
    THEN (IF wk[p].order = 0 THEN 0 ELSE orders[wk[p].order].userID)
    ELSE cl[p].userID

\* the Withdrawal rows of user u in ws
WithdrawalsOf(ws, u) == SelectSeq(ws, LAMBDA r : r.userID = u)

HoldsLock(q) == (\E u \in Users : balLock[u] = q) \/ (\E o \in OrderIds : ordLock[o] = q)

\* C36: a credit or a Withdraw for one user changes neither the BalanceRow nor the
\* Withdrawal rows nor the row lock of any other user, and it can always take its
\* next step (short of a storage error) unless an operation of the same user
\* holds a lock.
C36_CrossUserFrame ==
    /\ [](/\ \A u \in Users : balLock[u] # NoProc => OpUser(balLock[u]) = u
          /\ \A p \in Workers \cup Clients :
                /\ \A b \in pend[p].balances : b.userID = OpUser(p)
                /\ \A i \in 1..Len(pend[p].withdrawals) :
                      pend[p].withdrawals[i].userID = OpUser(p)
          /\ \A w \in Workers :
                (/\ wk[w].pc \in {"update", "credit", "commit"}
                 /\ \A q \in (Workers \cup Clients) \ {w} :
                       OpUser(q) = OpUser(w) => ~HoldsLock(q))
                => IF wk[w].pc = "commit" THEN ENABLED Commit(w)
                   ELSE ENABLED (UpdateStatus(w) /\ wk'[w].pc # "idle")
          /\ \A c \in Clients :
                (/\ cl[c].pc \in {"select", "write", "commit"}
                 /\ \A q \in (Workers \cup Clients) \ {c} :
                       OpUser(q) = OpUser(c) => ~HoldsLock(q))
                => ENABLED (Withdraw(c) /\ cl'[c].ret # "error"))
    /\ [][\A p \in Workers \cup Clients, u \in Users :
             (/\ (IF p \in Workers THEN wk'[p] # wk[p] ELSE cl'[p] # cl[p])
              /\ u # OpUser(p))
             => /\ balances'[u] = balances[u]
                /\ WithdrawalsOf(withdrawals', u) = WithdrawalsOf(withdrawals, u)
                /\ balLock'[u] = balLock[u]]_vars

\* C36 witness: a withdrawal of user 1 and a credit to user 2 both hold the row
\* of their own user, each about to commit
C36_Witness ==
    \E c \in Clients, w \in Workers :
        /\ cl[c].pc = "commit" /\ cl[c].userID = 1 /\ balLock[1] = c
        /\ wk[w].pc = "commit" /\ OpUser(w) = 2 /\ balLock[2] = w

\* the jobs for order o that are queued in the channel or held by a worker
JobsFor(o) ==
    Cardinality({i \in 1..Len(jobs) : jobs[i] = o})
      + Cardinality({w \in AllWorkers : wk[w].pc \notin {"idle", "none", "exited"}
                                         /\ wk[w].order = o})

\* C37: at any moment at most one job for an order is queued in the handoff
\* channel or being handled by a worker.
C37_ExclusiveLease == \A o \in OrderIds : JobsFor(o) <= 1

\* C38: while the dispatcher keeps ticking, every order with status NEW or
\* PROCESSING is eventually returned by SelectBatchForProcessing and fetched
\* from the accrual service by a worker, even when batchSize older orders stay
\* non-terminal for ever.
C38_StarvationFree ==
    \A o \in OrderIds :
        (o \in DOMAIN orders /\ orders[o].status \in {"NEW", "PROCESSING"})
            ~> (\E w \in Workers : wk[w].pc = "fetch" /\ wk[w].order = o)

\* C39: for any sequence of Start and Stop calls no send is attempted on the
\* closed channel and the channel is not closed twice (either would panic), and
\* a Stop that waits on p.wg waits only for goroutines whose context it has
\* cancelled, so it returns.
C39_StartStopSafe ==
    /\ ~life.crashed
    /\ life.ctl = "wait" =>
          \A p \in Dispatchers \cup AllWorkers : Live(p) => GenOf(p) \in life.done

\* C40: once the status of an order is committed as PROCESSED or INVALID, no
\* worker takes a further step of handling it: no CheckAccrual call, no
\* statement of UpdateStatus, no credit and no commit for that order.
C40_TerminalNeverHandled ==
    [][\A w \in Workers :
          (/\ wk[w].pc \in {"fetch", "update", "credit", "commit"}
           /\ orders[wk[w].order].status \in {"PROCESSED", "INVALID"})
          => wk'[w] = wk[w]]_vars
====
